---- MODULE Spec2Model ----
(***************************************************************************)
(* Model of the Azure VM lister (src/azure/list_azure_vms.py): the         *)
(* multi-method Azure CLI invoker run_azure_cli_command, its two probes    *)
(* check_azure_cli_installed and check_azure_login, and main.              *)
(*                                                                         *)
(* Python strings are sequences of one-character strings, so that          *)
(* str.replace, str.split and str.strip are computed as Python computes    *)
(* them.  Python values are records [t, s, elems, entries].                *)
(***************************************************************************)
EXTENDS FiniteSets, Integers, Sequences, TLC

VARIABLES
    system,     \* platform.system() of the host
    fn,         \* the function under execution
    command,    \* the argument of run_azure_cli_command
    methods,    \* the list of methods the function built for the host
    i,          \* enumerate(methods, 1): the method the loop is at
    calls,      \* a direct call's subprocess.run calls so far, in call order
    log,        \* a direct call's logger lines so far
    pc,         \* "idle" | "loop" | "returned" | "raised" | "blocked"
    retval,     \* the value returned (when pc = "returned")
    mpc,        \* where main is ("none": main is not running)
    args,       \* main: the parsed command line
    out,        \* main: what was printed or logged, in order
    history,    \* main: the functions called, in call order
    exit_code,  \* main: the exit code of the process (when mpc = "exited")
    subscriptions,  \* main: subscriptions
    sub_idx,        \* main: position of `for subscription in subscriptions`
    vms,            \* main: vms
    vm_idx,         \* main: position of `for vm in vms`
    all_vms_info,   \* main: all_vms_info
    files,          \* main: the files written
    script,         \* the script that runs
    clusters,       \* MSK scripts: clusters
    cluster_idx,    \* MSK scripts: position of `for cluster in clusters`
    reread          \* the values read back from the files written

callVars == <<fn, command, methods, i, calls, log, pc, retval>>
mainVars == <<mpc, args, out, history, exit_code, subscriptions, sub_idx, vms,
              vm_idx, all_vms_info, files>>
mskVars == <<script, clusters, cluster_idx, reread>>
vars == <<system, callVars, mainVars, mskVars>>

----------------------------------------------------------------------------
(* Bounds of the model.                                                    *)

\* subscriptions in the largest `az account list` document
MaxSubs == 2
\* VMs in the largest `az vm list` document
MaxVMs == 1
\* non-zero exit codes a subprocess may return are 1..MaxExit
MaxExit == 1

----------------------------------------------------------------------------
(* Python strings.                                                         *)

Whitespace == {" ", "\n", "\t"}

RECURSIVE lstrip(_)
lstrip(s) ==
    IF s # <<>> /\ Head(s) \in Whitespace THEN lstrip(Tail(s)) ELSE s

RECURSIVE rstrip(_)
rstrip(s) ==
    IF s # <<>> /\ s[Len(s)] \in Whitespace
    THEN rstrip(SubSeq(s, 1, Len(s) - 1))
    ELSE s

\* str.strip()
strip(s) == rstrip(lstrip(s))

\* s.startswith(p)
startswith(s, p) == Len(s) >= Len(p) /\ SubSeq(s, 1, Len(p)) = p

\* str.replace(old, new): left to right, non-overlapping occurrences
RECURSIVE replace(_, _, _)
replace(s, old, new) ==
    IF s = <<>> THEN <<>>
    ELSE IF startswith(s, old)
         THEN new \o replace(SubSeq(s, Len(old) + 1, Len(s)), old, new)
         ELSE <<Head(s)>> \o replace(Tail(s), old, new)

\* the first word of s and what follows it (s starts with a non-blank)
RECURSIVE word(_)
word(s) ==
    IF s = <<>> \/ Head(s) \in Whitespace THEN <<>>
    ELSE <<Head(s)>> \o word(Tail(s))

\* str.split(): the maximal runs of non-whitespace characters
RECURSIVE split(_)
split(s) ==
    LET t == lstrip(s)
        w == word(t)
    IN IF t = <<>> THEN <<>>
       ELSE <<w>> \o split(SubSeq(t, Len(w) + 1, Len(t)))

----------------------------------------------------------------------------
(* Python values: None, int, str, list, dict.                              *)

PyNone == [t |-> "NoneType", s |-> <<>>, elems |-> <<>>, entries |-> <<>>]
PyInt(digits) == [t |-> "int", s |-> digits, elems |-> <<>>, entries |-> <<>>]
PyStr(chars) == [t |-> "str", s |-> chars, elems |-> <<>>, entries |-> <<>>]
PyList(items) == [t |-> "list", s |-> <<>>, elems |-> items, entries |-> <<>>]
PyDict(kvs) == [t |-> "dict", s |-> <<>>, elems |-> <<>>, entries |-> kvs]

\* bool(v)
truthy(v) ==
    CASE v.t = "NoneType" -> FALSE
      [] v.t = "int" -> v.s # <<"0">>
      [] v.t = "str" -> v.s # <<>>
      [] v.t = "list" -> v.elems # <<>>
      [] v.t = "dict" -> v.entries # <<>>

\* dict.get(key, default)
RECURSIVE lookup(_, _, _)
lookup(kvs, key, default) ==
    IF kvs = <<>> THEN default
    ELSE IF Head(kvs).k = key THEN Head(kvs).v
         ELSE lookup(Tail(kvs), key, default)

get(d, key, default) == lookup(d.entries, key, default)

----------------------------------------------------------------------------
(* The JSON documents the Azure CLI may print, and json.loads on them.     *)

Digits == <<"1", "2", "3", "4", "5", "6", "7", "8", "9">>

\* the n-th subscription of `az account list`
Subscription(n) ==
    PyDict(<<[k |-> <<"i", "d">>, v |-> PyStr(<<"s", Digits[n]>>)],
             [k |-> <<"n", "a", "m", "e">>, v |-> PyStr(<<"N", Digits[n]>>)]>>)

\* the n-th VM of `az vm list`; every second VM is in resource group "gaz"
VM(n) ==
    PyDict(<<[k |-> <<"n", "a", "m", "e">>, v |-> PyStr(<<"v", Digits[n]>>)],
             [k |-> <<"r", "e", "s", "o", "u", "r", "c", "e", "G", "r", "o", "u", "p">>,
              v |-> PyStr(IF n % 2 = 1 THEN <<"r", "g">> ELSE <<"g", "a", "z">>)]>>)

\* {"a": 1}
DictA1 == PyDict(<<[k |-> <<"a">>, v |-> PyInt(<<"1">>)]>>)

SubscriptionList(n) == PyList([j \in 1..n |-> Subscription(j)])
VMList(n) == PyList([j \in 1..n |-> VM(j)])

\* the VMs `az vm list` finds in a subscription: those of subscription s2
\* are numbered from 2, those of the others from 1
SecondSubscription(cmd) ==
    \E k \in 1..(Len(cmd) - 1) : cmd[k] = "s" /\ cmd[k + 1] = "2"
VMListOf(cmd, n) ==
    PyList([j \in 1..n |-> VM(IF SecondSubscription(cmd) THEN j + 1 ELSE j)])

\* the document of `az vm show`:
\* {"osProfile":{"linuxConfiguration":{}},"storageProfile":{"osDisk":{"diskSizeGB":30}}}
VMDetails ==
    PyDict(<<[k |-> <<"o", "s", "P", "r", "o", "f", "i", "l", "e">>,
              v |-> PyDict(<<[k |-> <<"l", "i", "n", "u", "x", "C", "o", "n", "f",
                                     "i", "g", "u", "r", "a", "t", "i", "o", "n">>,
                              v |-> PyDict(<<>>)]>>)],
             [k |-> <<"s", "t", "o", "r", "a", "g", "e", "P", "r", "o", "f", "i",
                      "l", "e">>,
              v |-> PyDict(<<[k |-> <<"o", "s", "D", "i", "s", "k">>,
                              v |-> PyDict(<<[k |-> <<"d", "i", "s", "k", "S", "i",
                                                     "z", "e", "G", "B">>,
                                              v |-> PyInt(<<"3", "0">>)]>>)]>>)]>>)

\* the values of the JSON documents of the model
JsonValues ==
    {PyNone, PyList(<<>>), DictA1, VMDetails}
        \cup {SubscriptionList(n) : n \in 1..MaxSubs}
        \cup {VMList(n) : n \in 1..MaxVMs}
        \cup {PyList([j \in 1..n |-> VM(j + 1)]) : n \in 1..MaxVMs}

\* the JSON text of a value, as the CLI prints it (compact separators)
RECURSIVE JsonText(_)
RECURSIVE JsonItems(_)
RECURSIVE JsonMembers(_)
JsonText(v) ==
    CASE v.t = "NoneType" -> <<"n", "u", "l", "l">>
      [] v.t = "int" -> v.s
      [] v.t = "str" -> <<"\"">> \o v.s \o <<"\"">>
      [] v.t = "list" -> <<"[">> \o JsonItems(v.elems) \o <<"]">>
      [] v.t = "dict" -> <<"{">> \o JsonMembers(v.entries) \o <<"}">>
JsonItems(items) ==
    IF items = <<>> THEN <<>>
    ELSE JsonText(Head(items))
            \o (IF Len(items) > 1 THEN <<",">> ELSE <<>>)
            \o JsonItems(Tail(items))
JsonMembers(kvs) ==
    IF kvs = <<>> THEN <<>>
    ELSE <<"\"">> \o Head(kvs).k \o <<"\"", ":">> \o JsonText(Head(kvs).v)
            \o (IF Len(kvs) > 1 THEN <<",">> ELSE <<>>)
            \o JsonMembers(Tail(kvs))

\* the documents of the model: each JSON text with the value it denotes
JsonDocuments == {[text |-> JsonText(v), val |-> v] : v \in JsonValues}

NotJson == <<"n", "o", "t", " ", "j", "s", "o", "n">>

\* json.loads(s): the value of the document s is (surrounding whitespace is
\* skipped), or JSONDecodeError when s is no JSON document
json_loads(s) ==
    LET body == strip(s)
        docs == {d \in JsonDocuments : d.text = body}
    IN IF docs = {}
       THEN [ok |-> FALSE, val |-> PyNone]
       ELSE [ok |-> TRUE, val |-> (CHOOSE d \in docs : TRUE).val]

----------------------------------------------------------------------------
(* subprocess.run and what a spawned process may do.                       *)

Completed(code, text, err) ==
    [kind |-> "exit", returncode |-> code, stdout |-> text, stderr |-> err]
NoProcess(k) ==
    [kind |-> k, returncode |-> 0, stdout |-> <<>>, stderr |-> <<>>]

AccountListPrefix == <<"a", "z", " ", "a", "c", "c", "o", "u", "n", "t", " ", "l">>
VmListPrefix == <<"a", "z", " ", "v", "m", " ", "l">>
VmShowPrefix == <<"a", "z", " ", "v", "m", " ", "s">>

ErrText == <<"E", "R", "R", "O", "R", "\n">>

\* the values the CLI may print for a command: the document the command
\* asks for, or null, an empty list or an unrelated object
ValuesFor(cmd) ==
    {PyNone, PyList(<<>>), DictA1}
        \cup (IF startswith(cmd, AccountListPrefix)
              THEN {SubscriptionList(n) : n \in 1..MaxSubs} ELSE {})
        \cup (IF startswith(cmd, VmListPrefix)
              THEN {VMListOf(cmd, n) : n \in 1..MaxVMs} ELSE {})
        \cup (IF startswith(cmd, VmShowPrefix) THEN {VMDetails} ELSE {})

\* everything one spawned process may do: exit (with a code and its two
\* streams), not be found, never exit, or fail to start for another reason
ProcOutcomes(cmd) ==
    {Completed(0, text, <<>>) :
        text \in {<<>>, <<" ", "\n">>, NotJson}
                  \cup {JsonText(v) \o <<"\n">> : v \in ValuesFor(cmd)}}
        \cup {Completed(c, <<>>, ErrText) : c \in 1..MaxExit}
        \cup {Completed(c, JsonText(DictA1) \o <<"\n">>, <<>>) : c \in 1..MaxExit}
        \cup {NoProcess("notfound"), NoProcess("hang"), NoProcess("oserror")}

\* subprocess.run(args, shell=..., capture_output=True, text=True, timeout=...)
\* on a process that behaves as o: a CompletedProcess, an exception, or (a
\* process that never exits, run without timeout) no return at all
subprocess_run(m, o) ==
    CASE o.kind = "exit" ->
            [status |-> "completed", exc |-> "None", returncode |-> o.returncode,
             stdout |-> o.stdout, stderr |-> o.stderr]
      [] o.kind = "notfound" ->
            [status |-> "raised", exc |-> "FileNotFoundError", returncode |-> 0,
             stdout |-> <<>>, stderr |-> <<>>]
      [] o.kind = "oserror" ->
            [status |-> "raised", exc |-> "PermissionError", returncode |-> 0,
             stdout |-> <<>>, stderr |-> <<>>]
      [] o.kind = "hang" ->
            [status |-> IF m.timed THEN "raised" ELSE "blocked",
             exc |-> IF m.timed THEN "TimeoutExpired" ELSE "None",
             returncode |-> 0, stdout |-> <<>>, stderr |-> <<>>]

----------------------------------------------------------------------------
(* The commands the callers build.                                         *)

\* get_subscriptions: "az account list --output json"
account_list_command ==
    <<"a", "z", " ", "a", "c", "c", "o", "u", "n", "t", " ", "l", "i", "s", "t",
      " ", "-", "-", "o", "u", "t", "p", "u", "t", " ", "j", "s", "o", "n">>

\* get_vms_in_subscription: f"az vm list --subscription {subscription_id} --output json"
vm_list_command(subscription_id) ==
    <<"a", "z", " ", "v", "m", " ", "l", "i", "s", "t", " ", "-", "-", "s", "u",
      "b", "s", "c", "r", "i", "p", "t", "i", "o", "n", " ">>
        \o subscription_id
        \o <<" ", "-", "-", "o", "u", "t", "p", "u", "t", " ", "j", "s", "o", "n">>

\* get_vm_details: f"az vm show --subscription {subscription_id}
\*   --resource-group {resource_group} --name {vm_name} --output json"
vm_show_command(subscription_id, resource_group, vm_name) ==
    <<"a", "z", " ", "v", "m", " ", "s", "h", "o", "w", " ", "-", "-", "s", "u",
      "b", "s", "c", "r", "i", "p", "t", "i", "o", "n", " ">>
        \o subscription_id
        \o <<" ", "-", "-", "r", "e", "s", "o", "u", "r", "c", "e", "-", "g", "r",
             "o", "u", "p", " ">>
        \o resource_group
        \o <<" ", "-", "-", "n", "a", "m", "e", " ">>
        \o vm_name
        \o <<" ", "-", "-", "o", "u", "t", "p", "u", "t", " ", "j", "s", "o", "n">>

----------------------------------------------------------------------------
(* The method lists.  A method is one subprocess.run call: shell=True with *)
(* one command string, or shell=False with an argument vector; args holds  *)
(* the string (as its only element) or the vector.                         *)

InvokerTimeout == 60
ProbeTimeout == 10

Shell(cmdline, t) ==
    [shell |-> TRUE, args |-> <<cmdline>>, timed |-> TRUE, timeout |-> t]
Direct(argv, t) ==
    [shell |-> FALSE, args |-> argv, timed |-> TRUE, timeout |-> t]
\* a call without the timeout argument (timeout=None)
Untimed(m) == [m EXCEPT !.timed = FALSE, !.timeout = 0]

\* platform.system().lower() == 'windows'
lower(name) ==
    CASE name = "Windows" -> "windows"
      [] name = "Linux" -> "linux"
      [] name = "Darwin" -> "darwin"
      [] name = "FreeBSD" -> "freebsd"
is_windows(sys) == lower(sys) = "windows"

AzSpace == <<"a", "z", " ">>
AzCmdSpace == <<"a", "z", ".", "c", "m", "d", " ">>

\* f"az.cmd {cmd.replace('az ', '')}"
az_cmd(cmd) == AzCmdSpace \o replace(cmd, AzSpace, <<>>)

\* (mutant) Windows method 3 splits the command as it is, without az.cmd
run_azure_cli_command_methods_no_az_cmd(sys, cmd) ==
    IF is_windows(sys)
    THEN <<Shell(az_cmd(cmd), InvokerTimeout),
           Shell(cmd, InvokerTimeout),
           Direct(split(cmd), InvokerTimeout),
           Direct(split(cmd), InvokerTimeout)>>
    ELSE <<Direct(split(cmd), InvokerTimeout),
           Shell(cmd, InvokerTimeout)>>

\* run_azure_cli_command: methods
run_azure_cli_command_methods(sys, cmd) ==
    IF is_windows(sys)
    THEN <<Shell(az_cmd(cmd), InvokerTimeout),
           Shell(cmd, InvokerTimeout),
           Direct(split(az_cmd(cmd)), InvokerTimeout),
           Direct(split(cmd), InvokerTimeout)>>
    ELSE <<Direct(split(cmd), InvokerTimeout),
           Shell(cmd, InvokerTimeout)>>

AzCmd == <<"a", "z", ".", "c", "m", "d">>
Az == <<"a", "z">>
DashVersion == <<"-", "-", "v", "e", "r", "s", "i", "o", "n">>
Account == <<"a", "c", "c", "o", "u", "n", "t">>
Show == <<"s", "h", "o", "w">>

\* check_azure_cli_installed: methods
check_azure_cli_installed_methods(sys) ==
    IF is_windows(sys)
    THEN <<Shell(AzCmd \o <<" ">> \o DashVersion, ProbeTimeout),
           Shell(Az \o <<" ">> \o DashVersion, ProbeTimeout),
           Direct(<<AzCmd, DashVersion>>, ProbeTimeout),
           Direct(<<Az, DashVersion>>, ProbeTimeout)>>
    ELSE <<Direct(<<Az, DashVersion>>, ProbeTimeout),
           Shell(Az \o <<" ">> \o DashVersion, ProbeTimeout)>>

\* (mutant) on Windows the two direct methods come before the shell ones
check_azure_login_methods_direct_first(sys) ==
    IF is_windows(sys)
    THEN <<Untimed(Direct(<<AzCmd, Account, Show>>, 0)),
           Untimed(Direct(<<Az, Account, Show>>, 0)),
           Untimed(Shell(AzCmd \o <<" ">> \o Account \o <<" ">> \o Show, 0)),
           Untimed(Shell(Az \o <<" ">> \o Account \o <<" ">> \o Show, 0))>>
    ELSE <<Untimed(Direct(<<Az, Account, Show>>, 0)),
           Untimed(Shell(Az \o <<" ">> \o Account \o <<" ">> \o Show, 0))>>

\* check_azure_login: methods (no timeout argument)
check_azure_login_methods(sys) ==
    IF is_windows(sys)
    THEN <<Untimed(Shell(AzCmd \o <<" ">> \o Account \o <<" ">> \o Show, 0)),
           Untimed(Shell(Az \o <<" ">> \o Account \o <<" ">> \o Show, 0)),
           Untimed(Direct(<<AzCmd, Account, Show>>, 0)),
           Untimed(Direct(<<Az, Account, Show>>, 0))>>
    ELSE <<Untimed(Direct(<<Az, Account, Show>>, 0)),
           Untimed(Shell(Az \o <<" ">> \o Account \o <<" ">> \o Show, 0))>>

\* the methods of function f on host sys (cmd: the invoker's argument)
methods_of(f, sys, cmd) ==
    CASE f = "run_azure_cli_command" -> run_azure_cli_command_methods(sys, cmd)
      [] f = "check_azure_cli_installed" -> check_azure_cli_installed_methods(sys)
      [] f = "check_azure_login" -> check_azure_login_methods(sys)

\* the program a method runs: the first word of the shell's command line,
\* or the first element of the argument vector
program(m) == IF m.shell THEN word(lstrip(m.args[1])) ELSE m.args[1]

\* the arguments the program gets: the words after the first
arguments(m) == IF m.shell THEN Tail(split(m.args[1])) ELSE Tail(m.args)

----------------------------------------------------------------------------
(* One iteration of each function's loop over its methods.  A step says    *)
(* how the iteration ends (ctl: "return", "continue", "raise", "block"),   *)
(* the value returned and the log lines written.                           *)

Step(c, v, lines) == [ctl |-> c, val |-> v, logs |-> lines]
Line(lvl, text, idx, payload) ==
    [level |-> lvl, msg |-> text, method |-> idx, data |-> payload]

\* the classes of the model that `except Exception` catches
IsException(exc) ==
    exc \in {"FileNotFoundError", "PermissionError", "TimeoutExpired",
             "JSONDecodeError"}

\* (mutant) the exit code is not looked at
run_azure_cli_command_ok_any_code(result) ==
    strip(result.stdout) # <<>>

\* run_azure_cli_command: `if result.returncode == 0 and result.stdout.strip()`
run_azure_cli_command_ok(result) ==
    result.returncode = 0 /\ strip(result.stdout) # <<>>

\* (mutant) the parsed value is not returned at once: the loop goes on
run_azure_cli_command_parse_no_return(idx, result) ==
    LET parsed == json_loads(result.stdout)
    IN Step("continue", PyNone,
            IF parsed.ok THEN <<>>
            ELSE <<Line("error", "Failed to parse JSON output", idx, <<>>),
                   Line("error", "Raw output", idx, result.stdout)>>)

\* (mutant) text that does not parse is returned as it is
run_azure_cli_command_parse_returns_text(idx, result) ==
    LET parsed == json_loads(result.stdout)
    IN IF parsed.ok
       THEN Step("return", parsed.val, <<>>)
       ELSE Step("return", PyStr(result.stdout), <<>>)

\* (mutant) of a JSON list only the first item is returned
run_azure_cli_command_parse_first_item(idx, result) ==
    LET parsed == json_loads(result.stdout)
    IN IF parsed.ok
       THEN IF parsed.val.t = "list" /\ Len(parsed.val.elems) > 0
            THEN Step("return", parsed.val.elems[1], <<>>)
            ELSE Step("return", parsed.val, <<>>)
       ELSE Step("continue", PyNone,
                 <<Line("error", "Failed to parse JSON output", idx, <<>>),
                   Line("error", "Raw output", idx, result.stdout)>>)

\* run_azure_cli_command: the inner try, json.loads and its except clause
run_azure_cli_command_parse(idx, result) ==
    LET parsed == json_loads(result.stdout)
    IN IF parsed.ok
       THEN Step("return", parsed.val, <<>>)
       ELSE Step("continue", PyNone,
                 <<Line("error", "Failed to parse JSON output", idx, <<>>),
                   Line("error", "Raw output", idx, result.stdout)>>)

\* (mutant) a completed process that is no success ends the call
run_azure_cli_command_failed_returns(idx, result) ==
    Step("return", PyNone,
         <<Line("debug", "Method failed - return code", idx, <<>>)>>)

\* run_azure_cli_command: the else branch of a completed process
run_azure_cli_command_failed(idx, result) ==
    Step("continue", PyNone,
         <<Line("debug", "Method failed - return code", idx, <<>>)>>
            \o (IF strip(result.stderr) # <<>>
                THEN <<Line("debug", "Error output", idx, result.stderr)>>
                ELSE <<>>))

\* (mutant) no `except Exception` clause after the two specific ones
run_azure_cli_command_except_no_catch_all(idx, exc, cmd) ==
    CASE exc = "TimeoutExpired" ->
            Step("continue", PyNone,
                 <<Line("error", "Azure CLI command timed out", idx, cmd)>>)
      [] exc = "FileNotFoundError" ->
            Step("continue", PyNone,
                 <<Line("debug", "Azure CLI command not found", idx, cmd)>>)
      [] OTHER -> Step("raise", PyNone, <<>>)

\* run_azure_cli_command: the except clauses of the outer try
run_azure_cli_command_except(idx, exc, cmd) ==
    CASE exc = "TimeoutExpired" ->
            Step("continue", PyNone,
                 <<Line("error", "Azure CLI command timed out", idx, cmd)>>)
      [] exc = "FileNotFoundError" ->
            Step("continue", PyNone,
                 <<Line("debug", "Azure CLI command not found", idx, cmd)>>)
      [] exc \notin {"TimeoutExpired", "FileNotFoundError"} /\ IsException(exc) ->
            Step("continue", PyNone,
                 <<Line("error", "Unexpected error running Azure CLI command",
                        idx, <<>>)>>)
      [] OTHER -> Step("raise", PyNone, <<>>)

\* run_azure_cli_command: the body of `for i, method in enumerate(methods, 1)`
run_azure_cli_command_body(idx, m, o, cmd) ==
    LET result == subprocess_run(m, o)
        trying == <<Line("debug", "Trying method with command", idx, cmd)>>
        rest ==
            CASE result.status = "blocked" -> Step("block", PyNone, <<>>)
              [] result.status = "raised" ->
                    run_azure_cli_command_except(idx, result.exc, cmd)
              [] result.status = "completed" ->
                    IF run_azure_cli_command_ok(result)
                    THEN run_azure_cli_command_parse(idx, result)
                    ELSE run_azure_cli_command_failed(idx, result)
    IN [rest EXCEPT !.logs = trying \o rest.logs]

\* check_azure_cli_installed: the except clauses
check_azure_cli_installed_except(idx, exc) ==
    CASE exc = "FileNotFoundError" ->
            Step("continue", FALSE,
                 <<Line("debug", "Azure CLI not found", idx, <<>>)>>)
      [] exc = "TimeoutExpired" ->
            Step("continue", FALSE,
                 <<Line("warning", "Azure CLI command timed out", idx, <<>>)>>)
      [] exc \notin {"TimeoutExpired", "FileNotFoundError"} /\ IsException(exc) ->
            Step("continue", FALSE,
                 <<Line("debug", "Error checking Azure CLI", idx, <<>>)>>)
      [] OTHER -> Step("raise", FALSE, <<>>)

\* (mutant) True only when the version command also printed something
check_azure_cli_installed_body_needs_output(idx, m, o) ==
    LET result == subprocess_run(m, o)
    IN CASE result.status = "blocked" -> Step("block", FALSE, <<>>)
         [] result.status = "raised" ->
                check_azure_cli_installed_except(idx, result.exc)
         [] result.status = "completed" ->
                IF result.returncode = 0 /\ strip(result.stdout) # <<>>
                THEN Step("return", TRUE,
                          <<Line("info", "Found Azure CLI using method", idx, <<>>)>>)
                ELSE Step("continue", FALSE, <<>>)

\* check_azure_cli_installed: the body of the loop
check_azure_cli_installed_body(idx, m, o) ==
    LET result == subprocess_run(m, o)
    IN CASE result.status = "blocked" -> Step("block", FALSE, <<>>)
         [] result.status = "raised" ->
                check_azure_cli_installed_except(idx, result.exc)
         [] result.status = "completed" ->
                IF result.returncode = 0
                THEN Step("return", TRUE,
                          <<Line("info", "Found Azure CLI using method", idx, <<>>)>>)
                ELSE Step("continue", FALSE, <<>>)

\* (mutant) only FileNotFoundError is caught
check_azure_login_except_not_found_only(exc) ==
    IF exc = "FileNotFoundError"
    THEN Step("continue", FALSE, <<>>)
    ELSE Step("raise", FALSE, <<>>)

\* check_azure_login: `except Exception: continue`
check_azure_login_except(exc) ==
    IF IsException(exc)
    THEN Step("continue", FALSE, <<>>)
    ELSE Step("raise", FALSE, <<>>)

\* check_azure_login: the body of the loop
check_azure_login_body(m, o) ==
    LET result == subprocess_run(m, o)
    IN CASE result.status = "blocked" -> Step("block", FALSE, <<>>)
         [] result.status = "raised" -> check_azure_login_except(result.exc)
         [] result.status = "completed" ->
                IF result.returncode = 0
                THEN Step("return", TRUE, <<>>)
                ELSE Step("continue", FALSE, <<>>)

\* what each function returns when its loop ends without a return
run_azure_cli_command_default == PyNone
check_azure_cli_installed_default == FALSE
check_azure_login_default == FALSE

----------------------------------------------------------------------------
(* Shaping a VM record: get_vm_os_info and format_vm_info.  An operation   *)
(* that may raise gives [raised, val].                                     *)

Unknown == PyStr(<<"U", "n", "k", "n", "o", "w", "n">>)
Ok(v) == [raised |-> FALSE, val |-> v]
Raise == [raised |-> TRUE, val |-> PyNone]

\* str(v) of a scalar, as an f-string formats it
str(v) ==
    CASE v.t = "str" -> v.s
      [] v.t = "int" -> v.s
      [] v.t = "NoneType" -> <<"N", "o", "n", "e">>

\* sub in s, for strings
RECURSIVE contains(_, _)
contains(s, sub) ==
    IF startswith(s, sub) THEN TRUE
    ELSE IF s = <<>> THEN FALSE
    ELSE contains(Tail(s), sub)

\* s.split(sep) for a one-character sep: the pieces between the separators
RECURSIVE split_on(_, _)
split_on(s, sep) ==
    LET cut == IF \E j \in 1..Len(s) : s[j] = sep
               THEN CHOOSE j \in 1..Len(s) :
                        s[j] = sep /\ \A h \in 1..(j - 1) : s[h] # sep
               ELSE 0
    IN IF cut = 0 THEN <<s>>
       ELSE <<SubSeq(s, 1, cut - 1)>> \o split_on(SubSeq(s, cut + 1, Len(s)), sep)

\* str.lower() on the letters of the model's keys
lower_char(c) ==
    CASE c = "O" -> "o" [] c = "S" -> "s" [] c = "Y" -> "y" [] c = "T" -> "t"
      [] c = "E" -> "e" [] c = "M" -> "m" [] c = "N" -> "n" [] c = "U" -> "u"
      [] OTHER -> c
str_lower(s) == [j \in 1..Len(s) |-> lower_char(s[j])]

\* key in container: a key of a dict, an element of a list, a substring of
\* a str; TypeError on None and int
has(container, key) ==
    CASE container.t = "dict" ->
            Ok(\E j \in 1..Len(container.entries) : container.entries[j].k = key)
      [] container.t = "list" ->
            Ok(\E j \in 1..Len(container.elems) : container.elems[j] = PyStr(key))
      [] container.t = "str" -> Ok(contains(container.s, key))
      [] OTHER -> Raise

\* container[key] for a str key: the value of a dict, TypeError or KeyError
\* otherwise
item(container, key) ==
    IF container.t = "dict"
            /\ \E j \in 1..Len(container.entries) : container.entries[j].k = key
    THEN Ok(lookup(container.entries, key, PyNone))
    ELSE Raise

\* d[key] = v on the entries of a dict
set_item(kvs, key, v) ==
    IF \E j \in 1..Len(kvs) : kvs[j].k = key
    THEN [j \in 1..Len(kvs) |-> IF kvs[j].k = key THEN [k |-> key, v |-> v] ELSE kvs[j]]
    ELSE Append(kvs, [k |-> key, v |-> v])

\* d.update(other) on the entries of two dicts
RECURSIVE update(_, _)
update(kvs, other) ==
    IF other = <<>> THEN kvs
    ELSE update(set_item(kvs, Head(other).k, Head(other).v), Tail(other))

\* `a in d and b in d[a]`
has2(d, a, b) ==
    LET x == has(d, a)
    IN IF x.raised THEN Raise
       ELSE IF ~x.val THEN Ok(FALSE)
       ELSE LET y == item(d, a)
            IN IF y.raised THEN Raise ELSE has(y.val, b)

os_info_defaults ==
    <<[k |-> <<"o", "s", "_", "t", "y", "p", "e">>, v |-> Unknown],
      [k |-> <<"o", "s", "_", "n", "a", "m", "e">>, v |-> Unknown],
      [k |-> <<"o", "s", "_", "v", "e", "r", "s", "i", "o", "n">>, v |-> Unknown],
      [k |-> <<"o", "s", "_", "d", "i", "s", "k", "_", "s", "i", "z", "e", "_", "g", "b">>, v |-> Unknown]>>

\* get_vm_os_info: the OS type
os_type_step(info, vm_details) ==
    LET linux == has2(vm_details, <<"o", "s", "P", "r", "o", "f", "i", "l", "e">>, <<"l", "i", "n", "u", "x", "C", "o", "n", "f", "i", "g", "u", "r", "a", "t", "i", "o", "n">>)
        windows == has2(vm_details, <<"o", "s", "P", "r", "o", "f", "i", "l", "e">>, <<"w", "i", "n", "d", "o", "w", "s", "C", "o", "n", "f", "i", "g", "u", "r", "a", "t", "i", "o", "n">>)
    IN IF linux.raised THEN [raised |-> TRUE, info |-> info]
       ELSE IF linux.val
       THEN [raised |-> FALSE, info |-> set_item(info, <<"o", "s", "_", "t", "y", "p", "e">>, PyStr(<<"L", "i", "n", "u", "x">>))]
       ELSE IF windows.raised THEN [raised |-> TRUE, info |-> info]
       ELSE IF windows.val
       THEN [raised |-> FALSE, info |-> set_item(info, <<"o", "s", "_", "t", "y", "p", "e">>, PyStr(<<"W", "i", "n", "d", "o", "w", "s">>))]
       ELSE [raised |-> FALSE, info |-> info]

\* get_vm_os_info: the OS name from os_disk['imageReference']
image_step(info, os_disk) ==
    LET hasref == has(os_disk, <<"i", "m", "a", "g", "e", "R", "e", "f", "e", "r", "e", "n", "c", "e">>)
        ref == item(os_disk, <<"i", "m", "a", "g", "e", "R", "e", "f", "e", "r", "e", "n", "c", "e">>).val
        offer == has(ref, <<"o", "f", "f", "e", "r">>)
        sku == has(ref, <<"s", "k", "u">>)
        publisher == has(ref, <<"p", "u", "b", "l", "i", "s", "h", "e", "r">>)
        name(a, b) == PyStr(str(item(ref, a).val) \o <<" ">> \o str(item(ref, b).val))
    IN IF hasref.raised THEN [raised |-> TRUE, info |-> info]
       ELSE IF ~hasref.val THEN [raised |-> FALSE, info |-> info]
       ELSE IF offer.raised THEN [raised |-> TRUE, info |-> info]
       ELSE IF (offer.val /\ (sku.val \/ publisher.val)) /\ ref.t # "dict"
       THEN [raised |-> TRUE, info |-> info]
       ELSE IF offer.val /\ sku.val
       THEN [raised |-> FALSE,
             info |-> set_item(info, <<"o", "s", "_", "n", "a", "m", "e">>, name(<<"o", "f", "f", "e", "r">>, <<"s", "k", "u">>))]
       ELSE IF publisher.val /\ offer.val
       THEN [raised |-> FALSE,
             info |-> set_item(info, <<"o", "s", "_", "n", "a", "m", "e">>, name(<<"p", "u", "b", "l", "i", "s", "h", "e", "r">>, <<"o", "f", "f", "e", "r">>))]
       ELSE [raised |-> FALSE, info |-> info]

\* get_vm_os_info: the OS disk
os_disk_step(info, vm_details) ==
    LET hasdisk == has2(vm_details, <<"s", "t", "o", "r", "a", "g", "e", "P", "r", "o", "f", "i", "l", "e">>, <<"o", "s", "D", "i", "s", "k">>)
        os_disk == item(item(vm_details, <<"s", "t", "o", "r", "a", "g", "e", "P", "r", "o", "f", "i", "l", "e">>).val, <<"o", "s", "D", "i", "s", "k">>).val
        hassize == has(os_disk, <<"d", "i", "s", "k", "S", "i", "z", "e", "G", "B">>)
        sized == IF hassize.val
                 THEN set_item(info, <<"o", "s", "_", "d", "i", "s", "k", "_", "s", "i", "z", "e", "_", "g", "b">>, item(os_disk, <<"d", "i", "s", "k", "S", "i", "z", "e", "G", "B">>).val)
                 ELSE info
    IN IF hasdisk.raised THEN [raised |-> TRUE, info |-> info]
       ELSE IF ~hasdisk.val THEN [raised |-> FALSE, info |-> info]
       ELSE IF hassize.raised \/ os_disk.t # "dict"
       THEN [raised |-> TRUE, info |-> info]
       ELSE image_step(sized, os_disk)

\* get_vm_os_info: the OS name from the first tag whose key holds 'os' or
\* 'system'
RECURSIVE first_os_tag(_, _)
first_os_tag(info, tags) ==
    IF tags = <<>> THEN info
    ELSE IF contains(str_lower(Head(tags).k), <<"o", "s">>)
                \/ contains(str_lower(Head(tags).k), <<"s", "y", "s", "t", "e", "m">>)
         THEN set_item(info, <<"o", "s", "_", "n", "a", "m", "e">>, Head(tags).v)
         ELSE first_os_tag(info, Tail(tags))

tags_step(info, vm_details) ==
    LET hastags == has(vm_details, <<"t", "a", "g", "s">>)
        tags == item(vm_details, <<"t", "a", "g", "s">>)
    IN IF hastags.raised THEN [raised |-> TRUE, info |-> info]
       ELSE IF ~hastags.val THEN [raised |-> FALSE, info |-> info]
       ELSE IF tags.raised THEN [raised |-> TRUE, info |-> info]
       ELSE IF ~truthy(tags.val) THEN [raised |-> FALSE, info |-> info]
       ELSE IF tags.val.t # "dict" THEN [raised |-> TRUE, info |-> info]
       ELSE [raised |-> FALSE, info |-> first_os_tag(info, tags.val.entries)]

\* get_vm_os_info(vm_details): an exception ends the extraction and what
\* was found so far is returned
get_vm_os_info(vm_details) ==
    LET a == os_type_step(os_info_defaults, vm_details)
        b == os_disk_step(a.info, vm_details)
        c == tags_step(b.info, vm_details)
    IN IF a.raised THEN a.info
       ELSE IF b.raised THEN b.info
       ELSE c.info

\* format_vm_info: 'subscription_id'
subscription_id_of(vm) ==
    LET id == get(vm, <<"i", "d">>, PyNone)
        parts == split_on(id.s, "/")
    IN IF ~truthy(id) THEN Ok(Unknown)
       ELSE IF id.t # "str" \/ Len(parts) < 3 THEN Raise
       ELSE Ok(PyStr(parts[3]))

\* format_vm_info: 'vm_size'
vm_size_of(vm) ==
    LET profile == get(vm, <<"h", "a", "r", "d", "w", "a", "r", "e", "P", "r", "o", "f", "i", "l", "e">>, PyDict(<<>>))
    IN IF profile.t # "dict" THEN Raise
       ELSE Ok(get(profile, <<"v", "m", "S", "i", "z", "e">>, Unknown))

\* len(v) of a non-empty list, dict or str (up to nine elements)
len(v) ==
    PyInt(<<Digits[CASE v.t = "list" -> Len(v.elems)
                     [] v.t = "dict" -> Len(v.entries)
                     [] v.t = "str" -> Len(v.s)]>>)

\* format_vm_info: the network interfaces, when the VM lists any
network_interfaces_of(vm) ==
    LET profile == get(vm, <<"n", "e", "t", "w", "o", "r", "k", "P", "r", "o", "f", "i", "l", "e">>, PyNone)
        nics == get(profile, <<"n", "e", "t", "w", "o", "r", "k", "I", "n", "t", "e", "r", "f", "a", "c", "e", "s">>, PyNone)
    IN IF ~has(vm, <<"n", "e", "t", "w", "o", "r", "k", "P", "r", "o", "f", "i", "l", "e">>).val THEN Ok(PyNone)
       ELSE IF profile.t # "dict" THEN Raise
       ELSE IF ~truthy(nics) THEN Ok(PyNone)
       ELSE IF nics.t \notin {"list", "dict", "str"} THEN Raise
       ELSE Ok(len(nics))

\* format_vm_info(vm, subscription_name, vm_details), for a dict vm
format_vm_info(vm, subscription_name, vm_details) ==
    LET sid == subscription_id_of(vm)
        size == vm_size_of(vm)
        nics == network_interfaces_of(vm)
        power == get(vm, <<"p", "o", "w", "e", "r", "S", "t", "a", "t", "e">>, PyNone)
        base ==
            <<[k |-> <<"n", "a", "m", "e">>, v |-> get(vm, <<"n", "a", "m", "e">>, Unknown)],
              [k |-> <<"r", "e", "s", "o", "u", "r", "c", "e", "_", "g", "r", "o", "u", "p">>, v |-> get(vm, <<"r", "e", "s", "o", "u", "r", "c", "e", "G", "r", "o", "u", "p">>, Unknown)],
              [k |-> <<"l", "o", "c", "a", "t", "i", "o", "n">>, v |-> get(vm, <<"l", "o", "c", "a", "t", "i", "o", "n">>, Unknown)],
              [k |-> <<"s", "u", "b", "s", "c", "r", "i", "p", "t", "i", "o", "n">>, v |-> subscription_name],
              [k |-> <<"s", "u", "b", "s", "c", "r", "i", "p", "t", "i", "o", "n", "_", "i", "d">>, v |-> sid.val],
              [k |-> <<"v", "m", "_", "s", "i", "z", "e">>, v |-> size.val],
              [k |-> <<"p", "o", "w", "e", "r", "_", "s", "t", "a", "t", "e">>, v |-> IF truthy(power) THEN power ELSE Unknown],
              [k |-> <<"o", "s", "_", "t", "y", "p", "e">>, v |-> Unknown],
              [k |-> <<"o", "s", "_", "n", "a", "m", "e">>, v |-> Unknown],
              [k |-> <<"o", "s", "_", "v", "e", "r", "s", "i", "o", "n">>, v |-> Unknown],
              [k |-> <<"o", "s", "_", "d", "i", "s", "k", "_", "s", "i", "z", "e", "_", "g", "b">>, v |-> Unknown],
              [k |-> <<"p", "r", "i", "v", "a", "t", "e", "_", "i", "p">>, v |-> Unknown],
              [k |-> <<"p", "u", "b", "l", "i", "c", "_", "i", "p">>, v |-> Unknown],
              [k |-> <<"t", "a", "g", "s">>, v |-> get(vm, <<"t", "a", "g", "s">>, PyDict(<<>>))]>>
        with_os == IF truthy(vm_details)
                   THEN update(base, get_vm_os_info(vm_details))
                   ELSE base
        with_nics == IF nics.val = PyNone THEN with_os
                     ELSE set_item(with_os, <<"n", "e", "t", "w", "o", "r", "k", "_", "i", "n", "t", "e", "r", "f", "a", "c", "e", "s">>, nics.val)
    IN IF sid.raised \/ size.raised \/ nics.raised THEN Raise
       ELSE Ok(PyDict(with_nics))

----------------------------------------------------------------------------
(* Direct calls of the three functions, one loop iteration per step.       *)

Systems == {"Windows", "Linux", "Darwin"}
Functions ==
    {"run_azure_cli_command", "check_azure_cli_installed", "check_azure_login"}

\* one command of each caller
Commands ==
    {account_list_command,
     vm_list_command(<<"s", "1">>),
     vm_show_command(<<"s", "1">>, <<"g", "a", "z">>, <<"v", "2">>)}

\* the command line of a run: no filter, no flag
NoArgs ==
    [subscription |-> PyNone, resource_group |-> PyNone, detailed |-> FALSE,
     show_tags |-> FALSE, summary_only |-> FALSE, save_json |-> PyNone,
     save_csv |-> PyNone, save_text |-> PyNone]

\* main is not running
\* no MSK script runs: the script is the VM lister
MskIdle ==
    /\ script = "list_azure_vms.py"
    /\ clusters = <<>>
    /\ cluster_idx = 1
    /\ reread = <<>>

MainIdle ==
    /\ mpc = "none"
    /\ args = NoArgs
    /\ out = <<>>
    /\ history = <<>>
    /\ exit_code = 0
    /\ subscriptions = PyNone
    /\ sub_idx = 0
    /\ vms = PyNone
    /\ vm_idx = 0
    /\ all_vms_info = <<>>
    /\ files = <<>>

Init ==
    /\ system \in Systems
    /\ fn \in Functions
    /\ command \in (IF fn = "run_azure_cli_command" THEN Commands ELSE {<<>>})
    /\ methods = methods_of(fn, system, command)
    /\ i = 1
    /\ calls = <<>>
    /\ log = <<>>
    /\ pc = "loop"
    /\ retval = PyNone
    /\ MainIdle
    /\ MskIdle

Call(idx, m, o) == [method |-> idx, run |-> m, outcome |-> o]

\* logging.basicConfig(level=logging.INFO): the lines that are emitted
Emitted(lines) ==
    SelectSeq(lines, LAMBDA line : line.level \in {"info", "warning", "error"})

\* what a run of main keeps of the log of the call in progress: the level
\* of the first line the call emitted, if it emitted any
Noted(kept, lines) ==
    IF kept # <<>> \/ Emitted(lines) = <<>>
    THEN kept
    ELSE <<Line(Emitted(lines)[1].level, "", 0, <<>>)>>

\* (mutant) a method that timed out is run again
Iterate_retry_on_timeout(o, st) ==
    /\ calls' = IF mpc = "none" THEN Append(calls, Call(i, methods[i], o)) ELSE calls
    /\ log' = IF mpc = "none" THEN log \o st.logs ELSE Noted(log, st.logs)
    /\ pc' = CASE st.ctl = "return" -> "returned"
               [] st.ctl = "continue" -> "loop"
               [] st.ctl = "raise" -> "raised"
               [] st.ctl = "block" -> "blocked"
    /\ i' = IF st.ctl = "continue" /\ o.kind # "hang" THEN i + 1 ELSE i
    /\ retval' = IF st.ctl = "return" THEN st.val ELSE retval
    /\ UNCHANGED <<system, mskVars, fn, command, methods, mainVars>>

\* the loop takes the step st of method i, run on a process behaving as o
Iterate(o, st) ==
    /\ calls' = IF mpc = "none" THEN Append(calls, Call(i, methods[i], o)) ELSE calls
    /\ log' = IF mpc = "none" THEN log \o st.logs ELSE Noted(log, st.logs)
    /\ pc' = CASE st.ctl = "return" -> "returned"
               [] st.ctl = "continue" -> "loop"
               [] st.ctl = "raise" -> "raised"
               [] st.ctl = "block" -> "blocked"
    /\ i' = IF st.ctl = "continue" THEN i + 1 ELSE i
    /\ retval' = IF st.ctl = "return" THEN st.val ELSE retval
    /\ UNCHANGED <<system, mskVars, fn, command, methods, mainVars>>

\* the loop is over: the function returns its default
Exhausted(default) ==
    /\ pc' = "returned"
    /\ retval' = default
    /\ UNCHANGED <<system, mskVars, fn, command, methods, i, calls, log, mainVars>>

run_azure_cli_command_try ==
    /\ pc = "loop" /\ fn = "run_azure_cli_command" /\ i <= Len(methods)
    /\ \E o \in ProcOutcomes(command) :
        Iterate(o, run_azure_cli_command_body(i, methods[i], o, command))

run_azure_cli_command_end ==
    /\ pc = "loop" /\ fn = "run_azure_cli_command" /\ i > Len(methods)
    /\ Exhausted(run_azure_cli_command_default)

check_azure_cli_installed_try ==
    /\ pc = "loop" /\ fn = "check_azure_cli_installed" /\ i <= Len(methods)
    /\ \E o \in ProcOutcomes(command) :
        Iterate(o, check_azure_cli_installed_body(i, methods[i], o))

check_azure_cli_installed_end ==
    /\ pc = "loop" /\ fn = "check_azure_cli_installed" /\ i > Len(methods)
    /\ Exhausted(check_azure_cli_installed_default)

check_azure_login_try ==
    /\ pc = "loop" /\ fn = "check_azure_login" /\ i <= Len(methods)
    /\ \E o \in ProcOutcomes(command) :
        Iterate(o, check_azure_login_body(methods[i], o))

check_azure_login_end ==
    /\ pc = "loop" /\ fn = "check_azure_login" /\ i > Len(methods)
    /\ Exhausted(check_azure_login_default)

Next ==
    \/ run_azure_cli_command_try
    \/ run_azure_cli_command_end
    \/ check_azure_cli_installed_try
    \/ check_azure_cli_installed_end
    \/ check_azure_login_try
    \/ check_azure_login_end

Spec == Init /\ [][Next]_vars

----------------------------------------------------------------------------
(* main: a run of the script.  The calls of the three functions are made   *)
(* through the loop actions above; main goes on when the call has          *)
(* returned.                                                               *)

Message(text, arg) == [msg |-> text, arg |-> arg]

\* the command lines of the model: every filter with and without
\* --detailed, and the output flags alone and together
Filters ==
    {[NoArgs EXCEPT !.subscription = s, !.resource_group = g, !.detailed = d] :
        s \in {PyNone, PyStr(<<"s", "1">>), PyStr(<<"s", "0">>)},
        g \in {PyNone, PyStr(<<"g", "a", "z">>)},
        d \in BOOLEAN}
Outputs ==
    {[NoArgs EXCEPT !.save_json = j, !.save_csv = c, !.save_text = x,
                    !.summary_only = (j = PyNone), !.show_tags = (c # PyNone)] :
        j \in {PyNone, PyStr(<<"o", ".", "j", "s", "o", "n">>)},
        c \in {PyNone, PyStr(<<"o", ".", "c", "s", "v">>)},
        x \in {PyNone, PyStr(<<"o", ".", "t", "x", "t">>)}}
ArgSets == Filters \cup Outputs

\* the hosts of the runs of main: Windows and one of the others
MainSystems == {"Windows", "Linux"}

InitMain ==
    /\ system \in MainSystems
    /\ fn = "none"
    /\ command = <<>>
    /\ methods = <<>>
    /\ i = 1
    /\ calls = <<>>
    /\ log = <<>>
    /\ pc = "idle"
    /\ retval = PyNone
    /\ mpc = "start"
    /\ args \in ArgSets
    /\ out = <<>>
    /\ history = <<>>
    /\ exit_code = 0
    /\ subscriptions = PyNone
    /\ sub_idx = 0
    /\ vms = PyNone
    /\ vm_idx = 0
    /\ all_vms_info = <<>>
    /\ files = <<>>
    /\ MskIdle

\* the last call of the history h returned value (noted for the two probes)
Returned(h, value) == [h EXCEPT ![Len(h)].ret = value]

\* main calls f (with cmd, for run_azure_cli_command); h: the history so far
CallAfter(h, f, cmd) ==
    /\ fn' = f
    /\ command' = cmd
    /\ methods' = methods_of(f, system, cmd)
    /\ i' = 1
    /\ pc' = "loop"
    /\ retval' = PyNone
    /\ history' = Append(h, [f |-> f, cmd |-> cmd, ret |-> "-"])
    /\ log' = <<>>
    /\ UNCHANGED <<system, mskVars, calls>>

CallFn(f, cmd) == CallAfter(history, f, cmd)

\* main makes no call in this step
NoCall == UNCHANGED <<system, mskVars, callVars, history>>

\* the process ends: sys.exit(code), or main returns and the exit code is 0
Exit(code) ==
    /\ mpc' = "exited"
    /\ exit_code' = code

\* the elements `for x in v` goes through: the items of a list, the keys of
\* a dict, the characters of a str
iterate(v) ==
    CASE v.t = "list" -> v.elems
      [] v.t = "dict" -> [j \in 1..Len(v.entries) |-> PyStr(v.entries[j].k)]
      [] v.t = "str" -> [j \in 1..Len(v.s) |-> PyStr(<<v.s[j]>>)]

\* `except Exception as e` of main: two logger.error lines, then main returns
main_except ==
    /\ out' = out \o <<Message("logger.error: Unexpected error", <<>>),
                       Message("logger.error: Full traceback", <<>>)>>
    /\ Exit(0)

\* parser.parse_args(): argparse ends the process with status 2 and a usage
\* message when it rejects the command line
UsageStatus == 2

\* main up to the call of check_azure_cli_installed; parsed: the command
\* line is one the parser accepts
main_start ==
    /\ mpc = "start"
    /\ \E parsed \in BOOLEAN :
        IF parsed
        THEN /\ out' = out \o <<Message("Azure VM Lister", <<>>)>>
             /\ CallFn("check_azure_cli_installed", <<>>)
             /\ mpc' = "check_azure_cli_installed"
             /\ UNCHANGED exit_code
        ELSE /\ out' = out \o <<Message("usage", <<>>)>>
             /\ Exit(UsageStatus)
             /\ NoCall
    /\ UNCHANGED <<args, subscriptions, sub_idx, vms, vm_idx, all_vms_info, files>>

\* `if not check_azure_cli_installed()` ... the call of check_azure_login
main_installed ==
    /\ mpc = "check_azure_cli_installed" /\ pc = "returned"
    /\ IF ~retval
       THEN /\ out' = out \o <<Message("Error: Azure CLI is not installed or not accessible.", <<>>),
                               Message("Troubleshooting steps", <<>>),
                               Message("Common solutions", <<>>)>>
            /\ Exit(1)
            /\ history' = Returned(history, "False")
            /\ UNCHANGED <<system, mskVars, callVars>>
       ELSE /\ CallAfter(Returned(history, "True"), "check_azure_login", <<>>)
            /\ mpc' = "check_azure_login"
            /\ UNCHANGED <<out, exit_code>>
    /\ UNCHANGED <<args, subscriptions, sub_idx, vms, vm_idx, all_vms_info, files>>

\* (mutant) a failed login check does not end the run
main_login_no_gate ==
    /\ mpc = "check_azure_login" /\ pc = "returned"
    /\ IF FALSE
       THEN /\ out' = out \o <<Message("Error: Not logged into Azure CLI.", <<>>),
                               Message("Please run: az login", <<>>)>>
            /\ Exit(1)
            /\ history' = Returned(history, "False")
            /\ UNCHANGED <<system, mskVars, callVars>>
       ELSE /\ out' = out \o <<Message("Getting subscriptions...", <<>>)>>
            /\ CallAfter(Returned(history, IF retval THEN "True" ELSE "False"), "run_azure_cli_command",
                         account_list_command)
            /\ mpc' = "get_subscriptions"
            /\ UNCHANGED exit_code
    /\ UNCHANGED <<args, subscriptions, sub_idx, vms, vm_idx, all_vms_info, files>>

\* `if not check_azure_login()` ... the call of get_subscriptions
main_login ==
    /\ mpc = "check_azure_login" /\ pc = "returned"
    /\ IF ~retval
       THEN /\ out' = out \o <<Message("Error: Not logged into Azure CLI.", <<>>),
                               Message("Please run: az login", <<>>)>>
            /\ Exit(1)
            /\ history' = Returned(history, "False")
            /\ UNCHANGED <<system, mskVars, callVars>>
       ELSE /\ out' = out \o <<Message("Getting subscriptions...", <<>>)>>
            /\ CallAfter(Returned(history, "True"), "run_azure_cli_command",
                         account_list_command)
            /\ mpc' = "get_subscriptions"
            /\ UNCHANGED exit_code
    /\ UNCHANGED <<args, subscriptions, sub_idx, vms, vm_idx, all_vms_info, files>>

\* (mutant) every subscription is kept
filter_subscriptions_keeps_all(subs, wanted) ==
    LET all == iterate(subs)
    IN IF \E j \in 1..Len(all) : all[j].t # "dict" THEN Raise ELSE Ok(PyList(all))

\* [sub for sub in subscriptions if sub.get('id') == args.subscription]
filter_subscriptions(subs, wanted) ==
    LET all == iterate(subs)
    IN IF \E j \in 1..Len(all) : all[j].t # "dict" THEN Raise
       ELSE Ok(PyList(SelectSeq(all, LAMBDA sub : get(sub, <<"i", "d">>, PyNone) = wanted)))

\* from `subscriptions = get_subscriptions()` to the subscription loop
main_subscriptions ==
    /\ mpc = "get_subscriptions" /\ pc = "returned"
    /\ NoCall
    /\ UNCHANGED <<args, vms, vm_idx, files>>
    /\ LET found == <<Message("Found subscription(s)", len(retval).s)>>
           kept == filter_subscriptions(retval, args.subscription)
       IN IF ~truthy(retval)
          THEN /\ out' = out \o <<Message("No subscriptions found or accessible.", <<>>)>>
               /\ Exit(0)
               /\ subscriptions' = retval
               /\ UNCHANGED <<sub_idx, all_vms_info>>
          ELSE IF retval.t = "int"
          THEN /\ main_except
               /\ subscriptions' = retval
               /\ UNCHANGED <<sub_idx, all_vms_info>>
          ELSE IF truthy(args.subscription) /\ kept.raised
          THEN /\ out' = out \o found
                        \o <<Message("logger.error: Unexpected error", <<>>),
                             Message("logger.error: Full traceback", <<>>)>>
               /\ Exit(0)
               /\ subscriptions' = retval
               /\ UNCHANGED <<sub_idx, all_vms_info>>
          ELSE IF truthy(args.subscription) /\ ~truthy(kept.val)
          THEN /\ out' = out \o found
                        \o <<Message("Subscription not found or not accessible.",
                                   args.subscription.s)>>
               /\ Exit(0)
               /\ subscriptions' = kept.val
               /\ UNCHANGED <<sub_idx, all_vms_info>>
          ELSE /\ out' = out \o found
               /\ subscriptions' = IF truthy(args.subscription) THEN kept.val ELSE retval
               /\ sub_idx' = 1
               /\ all_vms_info' = <<>>
               /\ mpc' = "for subscription"
               /\ UNCHANGED exit_code

\* the head of `for subscription in subscriptions` up to the call of
\* get_vms_in_subscription
main_subscription ==
    /\ mpc = "for subscription"
    /\ UNCHANGED <<args, subscriptions, sub_idx, vms, vm_idx, all_vms_info, files>>
    /\ LET subs == iterate(subscriptions)
           subscription == subs[sub_idx]
           subscription_id == get(subscription, <<"i", "d">>, PyNone)
           subscription_name == get(subscription, <<"n", "a", "m", "e">>, Unknown)
       IN IF sub_idx > Len(subs)
          THEN /\ mpc' = "report"
               /\ NoCall
               /\ UNCHANGED <<out, exit_code>>
          ELSE IF subscription.t # "dict"
          THEN /\ main_except
               /\ NoCall
          ELSE /\ out' = out \o <<Message("Processing subscription", str(subscription_name))>>
               /\ CallFn("run_azure_cli_command", vm_list_command(str(subscription_id)))
               /\ mpc' = "get_vms_in_subscription"
               /\ UNCHANGED exit_code

\* (mutant) a listing that is unavailable ends the run
main_vms_stops_when_unavailable ==
    /\ mpc = "get_vms_in_subscription" /\ pc = "returned"
    /\ NoCall
    /\ UNCHANGED <<args, subscriptions, all_vms_info, files>>
    /\ LET subscription == iterate(subscriptions)[sub_idx]
           subscription_name == get(subscription, <<"n", "a", "m", "e">>, Unknown)
       IN IF ~truthy(retval)
          THEN /\ out' = out \o <<Message("No VMs found in subscription",
                                        str(subscription_name))>>
               /\ IF retval = PyNone
                  THEN Exit(0) /\ UNCHANGED <<sub_idx, vms, vm_idx>>
                  ELSE /\ sub_idx' = sub_idx + 1
                       /\ mpc' = "for subscription"
                       /\ UNCHANGED <<vms, vm_idx, exit_code>>
          ELSE IF retval.t = "int"
          THEN /\ main_except
               /\ vms' = retval
               /\ UNCHANGED <<sub_idx, vm_idx>>
          ELSE /\ out' = out \o <<Message("Found VM(s) in subscription", len(retval).s)>>
               /\ vms' = retval
               /\ vm_idx' = 1
               /\ mpc' = "for vm"
               /\ UNCHANGED <<sub_idx, exit_code>>

\* from `vms = get_vms_in_subscription(subscription_id)` to the VM loop
main_vms ==
    /\ mpc = "get_vms_in_subscription" /\ pc = "returned"
    /\ NoCall
    /\ UNCHANGED <<args, subscriptions, all_vms_info, files>>
    /\ LET subscription == iterate(subscriptions)[sub_idx]
           subscription_name == get(subscription, <<"n", "a", "m", "e">>, Unknown)
       IN IF ~truthy(retval)
          THEN /\ out' = out \o <<Message("No VMs found in subscription",
                                        str(subscription_name))>>
               /\ sub_idx' = sub_idx + 1
               /\ mpc' = "for subscription"
               /\ UNCHANGED <<vms, vm_idx, exit_code>>
          ELSE IF retval.t = "int"
          THEN /\ main_except
               /\ vms' = retval
               /\ UNCHANGED <<sub_idx, vm_idx>>
          ELSE /\ out' = out \o <<Message("Found VM(s) in subscription", len(retval).s)>>
               /\ vms' = retval
               /\ vm_idx' = 1
               /\ mpc' = "for vm"
               /\ UNCHANGED <<sub_idx, exit_code>>

\* format_vm_info and all_vms_info.append for the VM the loop is at
main_append(vm, subscription_name, vm_details) ==
    LET vm_info == format_vm_info(vm, subscription_name, vm_details)
    IN IF vm_info.raised
       THEN /\ main_except
            /\ UNCHANGED <<vm_idx, all_vms_info>>
       ELSE /\ all_vms_info' = Append(all_vms_info, vm_info.val)
            /\ vm_idx' = vm_idx + 1
            /\ mpc' = "for vm"
            /\ UNCHANGED <<out, exit_code>>

\* the head of `for vm in vms`: the resource-group filter, then the call of
\* get_vm_details (--detailed) or format_vm_info without details
main_vm ==
    /\ mpc = "for vm"
    /\ UNCHANGED <<args, subscriptions, vms, files>>
    /\ LET subscription == iterate(subscriptions)[sub_idx]
           subscription_id == get(subscription, <<"i", "d">>, PyNone)
           subscription_name == get(subscription, <<"n", "a", "m", "e">>, Unknown)
           all == iterate(vms)
           vm == all[vm_idx]
           vm_name == get(vm, <<"n", "a", "m", "e">>, PyNone)
           resource_group == get(vm, <<"r", "e", "s", "o", "u", "r", "c", "e", "G", "r", "o", "u", "p">>, PyNone)
       IN IF vm_idx > Len(all)
          THEN /\ sub_idx' = sub_idx + 1
               /\ mpc' = "for subscription"
               /\ NoCall
               /\ UNCHANGED <<out, exit_code, vm_idx, all_vms_info>>
          ELSE IF vm.t # "dict"
          THEN /\ main_except
               /\ NoCall
               /\ UNCHANGED <<sub_idx, vm_idx, all_vms_info>>
          ELSE IF truthy(args.resource_group) /\ resource_group # args.resource_group
          THEN /\ vm_idx' = vm_idx + 1
               /\ NoCall
               /\ UNCHANGED <<mpc, out, exit_code, sub_idx, all_vms_info>>
          ELSE IF args.detailed
          THEN /\ out' = out \o <<Message("Getting details for VM", str(vm_name))>>
               /\ CallFn("run_azure_cli_command",
                         vm_show_command(str(subscription_id), str(resource_group),
                                         str(vm_name)))
               /\ mpc' = "get_vm_details"
               /\ UNCHANGED <<exit_code, sub_idx, vm_idx, all_vms_info>>
          ELSE /\ main_append(vm, subscription_name, PyNone)
               /\ NoCall
               /\ UNCHANGED sub_idx

\* from `vm_details = get_vm_details(...)` to all_vms_info.append(vm_info)
main_details ==
    /\ mpc = "get_vm_details" /\ pc = "returned"
    /\ NoCall
    /\ UNCHANGED <<args, subscriptions, sub_idx, vms, files>>
    /\ LET subscription == iterate(subscriptions)[sub_idx]
           subscription_name == get(subscription, <<"n", "a", "m", "e">>, Unknown)
           vm == iterate(vms)[vm_idx]
       IN main_append(vm, subscription_name, retval)

\* save_vms_to_json / save_vms_to_csv / save_vms_to_text: the file is
\* written, or the write fails and the error is logged; neither raises
save(format, filename, written) ==
    IF written
    THEN /\ files' = Append(files, [format |-> format, filename |-> filename,
                                    vms |-> all_vms_info])
         /\ out' = out \o <<Message("AZURE VMs SUMMARY", <<>>)>>
                \o (IF args.summary_only THEN <<>>
                    ELSE <<Message("DETAILED VM INFORMATION", <<>>)>>)
                \o <<Message("VM information saved", filename)>>
    ELSE /\ files' = files
         /\ out' = out \o <<Message("AZURE VMs SUMMARY", <<>>)>>
                \o (IF args.summary_only THEN <<>>
                    ELSE <<Message("DETAILED VM INFORMATION", <<>>)>>)
                \o <<Message("logger.error: Error saving to file", filename)>>

\* f"azure_vms_{timestamp}.json"
default_json_filename == <<"a", "z", "u", "r", "e", "_", "v", "m", "s", "_", "<", "t", "i", "m", "e", "s", "t", "a", "m", "p", ">", ".", "j", "s", "o", "n">>

\* (mutant) a run that found no VM exits with code 1
main_report_exit_1_when_empty ==
    /\ mpc = "report"
    /\ NoCall
    /\ UNCHANGED <<args, subscriptions, sub_idx, vms, vm_idx, all_vms_info>>
    /\ Exit(IF all_vms_info = <<>> THEN 1 ELSE 0)
    /\ IF all_vms_info = <<>>
       THEN /\ out' = out \o <<Message("No VMs found matching the criteria.", <<>>)>>
            /\ files' = files
       ELSE IF truthy(args.save_json)
       THEN \E written \in BOOLEAN : save("json", args.save_json.s, written)
       ELSE IF truthy(args.save_csv)
       THEN \E written \in BOOLEAN : save("csv", args.save_csv.s, written)
       ELSE IF truthy(args.save_text)
       THEN \E written \in BOOLEAN : save("text", args.save_text.s, written)
       ELSE IF args.detailed
       THEN \E written \in BOOLEAN : save("json", default_json_filename, written)
       ELSE /\ files' = files
            /\ out' = out \o <<Message("AZURE VMs SUMMARY", <<>>)>>
                   \o (IF args.summary_only THEN <<>>
                       ELSE <<Message("DETAILED VM INFORMATION", <<>>)>>)

\* (mutant) one file for every output flag given
main_report_every_flag ==
    /\ mpc = "report"
    /\ NoCall
    /\ UNCHANGED <<args, subscriptions, sub_idx, vms, vm_idx, all_vms_info>>
    /\ Exit(0)
    /\ IF all_vms_info = <<>>
       THEN /\ out' = out \o <<Message("No VMs found matching the criteria.", <<>>)>>
            /\ files' = files
       ELSE LET file(format, filename) ==
                    IF truthy(filename)
                    THEN <<[format |-> format, filename |-> filename.s,
                            vms |-> all_vms_info]>>
                    ELSE <<>>
                written == file("json", args.save_json) \o file("csv", args.save_csv)
                               \o file("text", args.save_text)
            IN /\ files' = files \o written
               /\ out' = out \o <<Message("AZURE VMs SUMMARY", <<>>)>>
                      \o [j \in 1..Len(written) |->
                            Message("VM information saved", written[j].filename)]

\* after the loops: the summary, the table and the file asked for
main_report ==
    /\ mpc = "report"
    /\ NoCall
    /\ UNCHANGED <<args, subscriptions, sub_idx, vms, vm_idx, all_vms_info>>
    /\ Exit(0)
    /\ IF all_vms_info = <<>>
       THEN /\ out' = out \o <<Message("No VMs found matching the criteria.", <<>>)>>
            /\ files' = files
       ELSE IF truthy(args.save_json)
       THEN \E written \in BOOLEAN : save("json", args.save_json.s, written)
       ELSE IF truthy(args.save_csv)
       THEN \E written \in BOOLEAN : save("csv", args.save_csv.s, written)
       ELSE IF truthy(args.save_text)
       THEN \E written \in BOOLEAN : save("text", args.save_text.s, written)
       ELSE IF args.detailed
       THEN \E written \in BOOLEAN : save("json", default_json_filename, written)
       ELSE /\ files' = files
            /\ out' = out \o <<Message("AZURE VMs SUMMARY", <<>>)>>
                   \o (IF args.summary_only THEN <<>>
                       ELSE <<Message("DETAILED VM INFORMATION", <<>>)>>)

\* where main is inside its try block
InTry ==
    mpc \in {"get_subscriptions", "for subscription", "get_vms_in_subscription",
             "for vm", "get_vm_details", "report"}

\* (mutant) an interrupt inside the loops is reported and main goes on with
\* its report
main_interrupt_goes_on ==
    /\ InTry /\ mpc # "report"
    /\ out' = out \o <<Message("Operation cancelled by user.", <<>>)>>
    /\ mpc' = "report"
    /\ pc' = "idle"
    /\ UNCHANGED <<system, mskVars, fn, command, methods, i, calls, log, retval, history,
                   exit_code, args, subscriptions, sub_idx, vms, vm_idx, all_vms_info, files>>

\* `except KeyboardInterrupt`: an interrupt inside the try block (the call
\* in progress, if any, is abandoned) is reported and main returns
main_interrupt ==
    /\ InTry
    /\ out' = out \o <<Message("Operation cancelled by user.", <<>>)>>
    /\ Exit(0)
    /\ pc' = "idle"
    /\ UNCHANGED <<system, mskVars, fn, command, methods, i, calls, log, retval, history,
                   args, subscriptions, sub_idx, vms, vm_idx, all_vms_info, files>>

\* where main is in one of the two probes, before its try block
InProbe == mpc \in {"check_azure_cli_installed", "check_azure_login"}

\* the statuses of a Python process ended by a KeyboardInterrupt nothing
\* handles: 1 up to Python 3.7, death by SIGINT (128 + 2 to the shell) since
UnhandledInterruptStatuses == {1, 130}

\* an interrupt during a probe: KeyboardInterrupt is no Exception, so the
\* probe's except clauses let it through, main has no handler around the
\* probe, and the process ends with a traceback
main_probe_interrupt ==
    /\ InProbe
    /\ out' = out \o <<Message("Traceback: KeyboardInterrupt", <<>>)>>
    /\ mpc' = "exited"
    /\ exit_code' \in UnhandledInterruptStatuses
    /\ pc' = "idle"
    /\ UNCHANGED <<system, mskVars, fn, command, methods, i, calls, log, retval, history,
                   args, subscriptions, sub_idx, vms, vm_idx, all_vms_info, files>>

NextMain ==
    \/ main_start
    \/ main_installed
    \/ main_login
    \/ main_subscriptions
    \/ main_subscription
    \/ main_vms
    \/ main_vm
    \/ main_details
    \/ main_report
    \/ main_interrupt
    \/ main_probe_interrupt
    \/ run_azure_cli_command_try
    \/ run_azure_cli_command_end
    \/ check_azure_cli_installed_try
    \/ check_azure_cli_installed_end
    \/ check_azure_login_try
    \/ check_azure_login_end

SpecMain == InitMain /\ [][NextMain]_vars

----------------------------------------------------------------------------
(* Properties of the direct calls.                                         *)

\* the call's process exited with code zero
ExitZero(c) == c.outcome.kind = "exit" /\ c.outcome.returncode = 0
\* the call's process exited with a non-zero code
ExitNonZero(c) == c.outcome.kind = "exit" /\ c.outcome.returncode # 0
\* the call's process exited with code zero and printed a JSON document
ExitZeroJson(c) == ExitZero(c) /\ json_loads(c.outcome.stdout).ok
\* the call ended in an exception: not found, timed out, or another error
Errored(c) ==
    \/ c.outcome.kind \in {"notfound", "oserror"}
    \/ c.outcome.kind = "hang" /\ c.run.timed
\* after call k the loop went on to method k + 1 (or past the last method)
MovedOn(k) == k < Len(calls) \/ (pc \in {"loop", "returned"} /\ i = k + 1)
\* the calls made are the methods 1, 2, ... of the list, one call each
InListOrder ==
    /\ Len(calls) <= Len(methods)
    /\ \A k \in 1..Len(calls) : calls[k].method = k /\ calls[k].run = methods[k]
\* mode and program of every method of a list, in order
Signature(ms) == [k \in 1..Len(ms) |-> <<ms[k].shell, program(ms[k])>>]

\* C1: run_azure_cli_command attempts its methods strictly in list order and
\* stops at the first one that exits with code zero and prints JSON: every
\* call but the last one made did not succeed, and a call that succeeded is
\* the last one and the function has returned.
C1_InOrderUntilFirstSuccess ==
    fn = "run_azure_cli_command" =>
        /\ InListOrder
        /\ \A k \in 1..Len(calls) :
            ExitZeroJson(calls[k]) => k = Len(calls) /\ pc = "returned"
        /\ pc = "loop" => i = Len(calls) + 1

C1_Witness ==
    /\ fn = "run_azure_cli_command" /\ is_windows(system)
    /\ pc = "returned" /\ Len(calls) = 3
    /\ ExitNonZero(calls[1]) /\ Errored(calls[2]) /\ ExitZeroJson(calls[3])
    /\ retval = SubscriptionList(MaxSubs)

\* C2: when every method exited with a non-zero code, run_azure_cli_command
\* has not raised, and it returns only after the last method, with None.
C2_AllNonZeroGivesNone ==
    (fn = "run_azure_cli_command" /\ \A k \in 1..Len(calls) : ExitNonZero(calls[k])) =>
        /\ pc # "raised"
        /\ pc = "returned" => retval = PyNone /\ Len(calls) = Len(methods)

C2_Witness ==
    /\ fn = "run_azure_cli_command" /\ pc = "returned" /\ retval = PyNone
    /\ Len(calls) = Len(methods)
    /\ \A k \in 1..Len(calls) : ExitNonZero(calls[k])
    /\ \E k \in 1..Len(calls) : json_loads(calls[k].outcome.stdout).ok

\* C3: a method that exits with code zero and prints no JSON document never
\* has its text returned: the loop goes on to the next method, and after the
\* last method the function returns None.
C3_UnparsedTextNotReturned ==
    fn = "run_azure_cli_command" =>
        \A k \in 1..Len(calls) :
            (ExitZero(calls[k]) /\ ~json_loads(calls[k].outcome.stdout).ok) =>
                /\ MovedOn(k)
                /\ pc = "returned" =>
                    /\ retval.t # "str"
                    /\ k = Len(methods) => retval = PyNone

C3_Witness ==
    /\ fn = "run_azure_cli_command" /\ pc = "returned" /\ retval = PyNone
    /\ Len(calls) = Len(methods)
    /\ ExitZero(calls[Len(calls)])
    /\ calls[Len(calls)].outcome.stdout = NotJson

\* C4: a method that ends in not-found, timeout or another exception is
\* absorbed and the next method is attempted; nothing is raised to the
\* caller; and [not found, exit 0 with {"a":1}] returns {"a": 1}.
C4_ErrorsAbsorbed ==
    fn = "run_azure_cli_command" =>
        /\ pc # "raised"
        /\ \A k \in 1..Len(calls) : Errored(calls[k]) => MovedOn(k)
        /\ (/\ Len(calls) = 2
            /\ calls[1].outcome.kind = "notfound"
            /\ ExitZero(calls[2])
            /\ strip(calls[2].outcome.stdout) = JsonText(DictA1)) =>
                pc = "returned" /\ retval = DictA1

C4_Witness ==
    /\ fn = "run_azure_cli_command" /\ ~is_windows(system)
    /\ Len(calls) = 2 /\ Len(methods) = 2
    /\ calls[1].outcome.kind = "notfound"
    /\ ExitZero(calls[2])
    /\ strip(calls[2].outcome.stdout) = JsonText(DictA1)
    /\ pc = "returned" /\ retval = DictA1

\* C5: the method list of run_azure_cli_command depends only on the
\* platform: off Windows two methods, direct `az` then shell `az`; on
\* Windows four methods, one for each pair of {az.cmd, az} and {shell,
\* direct}, in the order (az.cmd, shell), (az, shell), (az.cmd, direct),
\* (az, direct).
C5_MethodsByPlatform ==
    fn = "run_azure_cli_command" =>
        /\ system \in {"Linux", "Darwin"} =>
            Signature(methods) = <<<<FALSE, Az>>, <<TRUE, Az>>>>
        /\ system = "Windows" =>
            /\ Len(methods) = 4
            /\ \A b \in {Az, AzCmd}, sh \in BOOLEAN :
                Cardinality({k \in 1..4 : Signature(methods)[k] = <<sh, b>>}) = 1
            /\ Signature(methods) =
                <<<<TRUE, AzCmd>>, <<TRUE, Az>>, <<FALSE, AzCmd>>, <<FALSE, Az>>>>

C5_Witness ==
    /\ fn = "run_azure_cli_command" /\ system = "Windows"
    /\ command = vm_show_command(<<"s", "1">>, <<"g", "a", "z">>, <<"v", "2">>)
    /\ Len(calls) = 4
    /\ Signature([k \in 1..4 |-> calls[k].run]) =
        <<<<TRUE, AzCmd>>, <<TRUE, Az>>, <<FALSE, AzCmd>>, <<FALSE, Az>>>>

\* C6: check_azure_cli_installed runs `--version` through its methods in
\* list order, returns True at the first method that exits with code zero
\* (whatever it printed) and attempts none after it, moves on after
\* not-found, timeout and other errors, and returns False exactly when no
\* method exited with code zero.
C6_InstalledProbe ==
    fn = "check_azure_cli_installed" =>
        /\ InListOrder
        /\ pc \notin {"raised", "blocked"}
        /\ \A k \in 1..Len(calls) :
            /\ arguments(calls[k].run) = <<DashVersion>>
            /\ ExitZero(calls[k]) => k = Len(calls) /\ pc = "returned" /\ retval = TRUE
            /\ ~ExitZero(calls[k]) => MovedOn(k)
        /\ pc = "returned" =>
            /\ retval = (\E k \in 1..Len(calls) : ExitZero(calls[k]))
            /\ retval = FALSE => Len(calls) = Len(methods)

C6_Witness ==
    /\ fn = "check_azure_cli_installed" /\ pc = "returned" /\ retval = TRUE
    /\ Len(calls) = 3 /\ calls[1].outcome.kind = "notfound"
    /\ calls[2].outcome.kind = "hang"
    /\ ExitZero(calls[3]) /\ calls[3].outcome.stdout = <<>>

\* C7: check_azure_login runs `account show` through its methods in list
\* order, returns True at the first method that exits with code zero and
\* attempts none after it, moves on after any exception, and returns False
\* exactly when no method exited with code zero.
C7_LoginProbe ==
    fn = "check_azure_login" =>
        /\ InListOrder
        /\ pc # "raised"
        /\ \A k \in 1..Len(calls) :
            /\ arguments(calls[k].run) = <<Account, Show>>
            /\ ExitZero(calls[k]) => k = Len(calls) /\ pc = "returned" /\ retval = TRUE
            /\ (Errored(calls[k]) \/ ExitNonZero(calls[k])) => MovedOn(k)
        /\ pc = "returned" =>
            /\ retval = (\E k \in 1..Len(calls) : ExitZero(calls[k]))
            /\ retval = FALSE => Len(calls) = Len(methods)

C7_Witness ==
    /\ fn = "check_azure_login" /\ pc = "returned" /\ retval = FALSE
    /\ Len(calls) = 4
    /\ calls[1].outcome.kind = "notfound" /\ calls[2].outcome.kind = "oserror"
    /\ ExitNonZero(calls[3]) /\ ExitNonZero(calls[4])

\* the signatures of the three functions' lists, per platform
InvokerSignatures ==
    [s \in Systems |->
        {Signature(run_azure_cli_command_methods(s, c)) : c \in Commands}]
InstalledSignature ==
    [s \in Systems |-> Signature(check_azure_cli_installed_methods(s))]
LoginSignature ==
    [s \in Systems |-> Signature(check_azure_login_methods(s))]

\* C8: on one platform the three functions use the same ordered method
\* list: at every position, the same mode and the same program.
C8_SameMethodLists ==
    /\ InvokerSignatures[system] = {InstalledSignature[system]}
    /\ LoginSignature[system] = InstalledSignature[system]
    /\ Signature(methods) = LoginSignature[system]
    /\ \A k \in 1..Len(calls) :
        <<calls[k].run.shell, program(calls[k].run)>> = InstalledSignature[system][k]

C8_Witness ==
    /\ fn = "check_azure_login" /\ system = "Windows"
    /\ Len(calls) = 4
    /\ Signature([k \in 1..4 |-> calls[k].run]) \in InvokerSignatures[system]
    /\ Signature([k \in 1..4 |-> calls[k].run]) = InstalledSignature[system]

----------------------------------------------------------------------------
(* Properties of the runs of main.                                         *)

\* a probe of this run returned False
ProbeFailed == \E k \in 1..Len(history) : history[k].ret = "False"
\* the run printed text
Printed(text) == \E j \in 1..Len(out) : out[j].msg = text

\* C9: main makes a data-bearing call (account list, vm list, vm show: the
\* calls of run_azure_cli_command) only after check_azure_cli_installed,
\* called first, and check_azure_login, called second, both returned True.
C9_ProbesGateDataCalls ==
    \A k \in 1..Len(history) :
        history[k].f = "run_azure_cli_command" =>
            /\ k >= 3
            /\ history[1].f = "check_azure_cli_installed" /\ history[1].ret = "True"
            /\ history[2].f = "check_azure_login" /\ history[2].ret = "True"

C9_Witness ==
    /\ mpc = "get_vm_details" /\ pc = "returned" /\ retval = VMDetails
    /\ Len(history) = 5
    /\ history[1].ret = "True" /\ history[2].ret = "True"
    /\ history[3].cmd = account_list_command
    /\ startswith(history[4].cmd, VmListPrefix)
    /\ startswith(history[5].cmd, VmShowPrefix)

\* the run entered main's try block: both probes returned True
EnteredTry == Len(history) >= 3 \/ (Len(history) = 2 /\ history[2].ret = "True")

----------------------------------------------------------------------------
(* Errors that reach main, and the bounds on the attempts.                 *)

\* C11: a run of main in which an exception reached `except Exception`
\* (logged as "Unexpected error") has logged the full traceback and exits
\* with a non-zero code.
C11_ErrorGivesNonZeroExit ==
    (mpc = "exited" /\ Printed("logger.error: Unexpected error")) =>
        (Printed("logger.error: Full traceback") /\ exit_code # 0)

\* C12: every attempt of the three functions carries a timeout, and no call
\* is left waiting for a process that never exits.
C12_EveryAttemptBounded ==
    /\ \A k \in 1..Len(calls) : calls[k].run.timed
    /\ pc # "blocked"

\* the process of the call printed text that is no JSON document
Unparsable(c) == ExitZero(c) /\ strip(c.outcome.stdout) # <<>> /\ ~json_loads(c.outcome.stdout).ok

\* C13: within one call of run_azure_cli_command no method is run twice,
\* whatever the earlier attempts ended in, so the call makes at most
\* Len(methods) attempts.
C13_EachMethodAtMostOnce ==
    fn = "run_azure_cli_command" =>
        /\ Len(calls) <= Len(methods)
        /\ \A j, k \in 1..Len(calls) : j # k => calls[j].method # calls[k].method

C13_Witness ==
    /\ fn = "run_azure_cli_command" /\ pc = "returned"
    /\ Len(methods) = 4 /\ Len(calls) = 4
    /\ calls[1].outcome.kind = "hang"
    /\ calls[2].outcome.kind = "notfound"
    /\ ExitNonZero(calls[3])
    /\ Unparsable(calls[4])

\* C14: a call of run_azure_cli_command that has returned gives None or the
\* parse of the whole standard output of one attempt, its last, which exited
\* with code zero; the output of an attempt that exited non-zero, or of
\* several attempts, is never what it returns.
C14_NoPartialResults ==
    (fn = "run_azure_cli_command" /\ pc = "returned") =>
        \/ /\ retval = PyNone
           /\ \A k \in 1..Len(calls) :
                ExitZeroJson(calls[k]) =>
                    (k = Len(calls) /\ json_loads(calls[k].outcome.stdout).val = PyNone)
        \/ /\ calls # <<>>
           /\ ExitZero(calls[Len(calls)])
           /\ json_loads(calls[Len(calls)].outcome.stdout) = [ok |-> TRUE, val |-> retval]
           /\ \A k \in 1..(Len(calls) - 1) : ~ExitZeroJson(calls[k])

C14_Witness ==
    /\ fn = "run_azure_cli_command" /\ pc = "returned"
    /\ Len(calls) = 2
    /\ ExitNonZero(calls[1]) /\ json_loads(calls[1].outcome.stdout).ok
    /\ ExitZeroJson(calls[2])
    /\ retval = SubscriptionList(MaxSubs)
    /\ retval # json_loads(calls[1].outcome.stdout).val

----------------------------------------------------------------------------
(* Failures of one resource in the loops of main.                          *)

\* the subscription the loop of main is at
subscription_at(k) == iterate(subscriptions)[k]

\* this step is the one of `except KeyboardInterrupt`
InterruptStep ==
    mpc' = "exited" /\ out' = Append(out, Message("Operation cancelled by user.", <<>>))

\* the VM listing of the subscription the loop is at has returned None
ListingUnavailable ==
    mpc = "get_vms_in_subscription" /\ pc = "returned" /\ retval = PyNone

\* C16: when the VM listing of a subscription returns None, main prints the
\* "No VMs found in subscription" line for it, adds nothing to the VMs
\* collected, does not exit and moves to the next subscription; and for every
\* subscription the loop comes to, the listing call is made.  (Steps of an
\* interrupt aside.)
C16_UnavailableListingSkipped ==
    [][/\ (ListingUnavailable /\ ~InterruptStep) =>
            /\ mpc' = "for subscription"
            /\ sub_idx' = sub_idx + 1
            /\ out' = Append(out, Message("No VMs found in subscription",
                        str(get(subscription_at(sub_idx), <<"n", "a", "m", "e">>, Unknown))))
            /\ all_vms_info' = all_vms_info
            /\ exit_code' = exit_code
       /\ (/\ mpc = "for subscription"
           /\ sub_idx <= Len(iterate(subscriptions))
           /\ subscription_at(sub_idx).t = "dict"
           /\ ~InterruptStep) =>
            /\ mpc' = "get_vms_in_subscription"
            /\ pc' = "loop"
            /\ fn' = "run_azure_cli_command"
            /\ command' = vm_list_command(str(get(subscription_at(sub_idx), <<"i", "d">>, PyNone)))
      ]_vars

C16_Witness ==
    /\ ListingUnavailable
    /\ Len(iterate(subscriptions)) = MaxSubs
    /\ sub_idx = 2
    /\ Printed("No VMs found in subscription")
    /\ all_vms_info = <<>>

\* the details call of the VM the loop is at has returned None
DetailsUnavailable ==
    mpc = "get_vm_details" /\ pc = "returned" /\ retval = PyNone

\* C17: when the details call of a VM returns None under --detailed, the
\* entries collected so far stay, the exit code stays, and the failure gets
\* an explicit note: a line the call logged at level INFO or above, or a line
\* main prints.  (Steps of an interrupt aside.)
C17_FailedDetailsNoted ==
    [][(DetailsUnavailable /\ ~InterruptStep) =>
            /\ SubSeq(all_vms_info', 1, Len(all_vms_info)) = all_vms_info
            /\ exit_code' = exit_code
            /\ (log # <<>> \/ out' # out)
      ]_vars

----------------------------------------------------------------------------
(* The output flags of the VM lister.                                      *)

\* the format of the file a command line asks for: the first of --save-json,
\* --save-csv, --save-text that is given, JSON for --detailed alone
FormatAsked ==
    CASE truthy(args.save_json) -> "json"
      [] truthy(args.save_csv) -> "csv"
      [] truthy(args.save_text) -> "text"
      [] args.detailed -> "json"
      [] OTHER -> "none"

\* C20: whatever combination of --save-json, --save-csv and --save-text is
\* given, a run writes at most one file, in one format: that of the first
\* flag given in the order json, csv, text.
C20_AtMostOneOutputFile ==
    /\ Len(files) <= 1
    /\ files # <<>> =>
        /\ files[1].format = FormatAsked
        /\ mpc = "exited" /\ exit_code = 0

C20_Witness ==
    /\ truthy(args.save_json) /\ truthy(args.save_csv) /\ truthy(args.save_text)
    /\ mpc = "exited"
    /\ Len(files) = 1
    /\ files[1].format = "json"
    /\ files[1].filename = args.save_json.s

----------------------------------------------------------------------------
(* The MSK scripts: what the AWS account may answer.                       *)

\* clusters in the largest answer of list_clusters
MaxClusters == 2

\* the n-th cluster of the account, as list_clusters describes it
Cluster(n) ==
    PyDict(<<[k |-> <<"C", "l", "u", "s", "t", "e", "r", "A", "r", "n">>, v |-> PyStr(<<"a", "r", "n", Digits[n]>>)],
             [k |-> <<"C", "l", "u", "s", "t", "e", "r", "N", "a", "m", "e">>, v |-> PyStr(<<"c", "-", Digits[n]>>)],
             [k |-> <<"S", "t", "a", "t", "e">>, v |-> PyStr(IF n % 2 = 1 THEN <<"A", "C", "T", "I", "V", "E">> ELSE <<"C", "R", "E", "A", "T", "I", "N", "G">>)]>>)

ClusterInfoList(n) == [j \in 1..n |-> Cluster(j)]

\* what list_clusters may do: answer with the clusters of the account, or
\* raise NoCredentialsError, ClientError or another exception
ListClustersOutcomes ==
    {[kind |-> "ok", list |-> ClusterInfoList(n)] : n \in 0..MaxClusters}
        \cup {[kind |-> e, list |-> <<>>] :
                e \in {"NoCredentialsError", "ClientError", "Exception"}}

\* get_msk_clusters(): the ClusterInfoList, or [] with an error logged when
\* anything was raised
get_msk_clusters(o) ==
    IF o.kind = "ok"
    THEN [val |-> o.list, logs |-> <<>>]
    ELSE [val |-> <<>>,
          logs |-> <<Message("logger.error: Error getting MSK clusters", <<>>)>>]

----------------------------------------------------------------------------
(* list_msk_cloudwatch_metrics.py: get_cluster_metrics.                    *)

metrics_to_get ==
    <<[name |-> <<"B", "y", "t", "e", "s", "I", "n", "P", "e", "r", "S", "e", "c">>, description |-> <<"B", "y", "t", "e", "s", " ", "I", "n", " ", "P", "e", "r", " ", "S", "e", "c", "o", "n", "d">>, unit |-> <<"B", "y", "t", "e", "s", "/", "S", "e", "c", "o", "n", "d">>],
      [name |-> <<"B", "y", "t", "e", "s", "O", "u", "t", "P", "e", "r", "S", "e", "c">>, description |-> <<"B", "y", "t", "e", "s", " ", "O", "u", "t", " ", "P", "e", "r", " ", "S", "e", "c", "o", "n", "d">>, unit |-> <<"B", "y", "t", "e", "s", "/", "S", "e", "c", "o", "n", "d">>],
      [name |-> <<"M", "e", "s", "s", "a", "g", "e", "s", "I", "n", "P", "e", "r", "S", "e", "c">>, description |-> <<"M", "e", "s", "s", "a", "g", "e", "s", " ", "I", "n", " ", "P", "e", "r", " ", "S", "e", "c", "o", "n", "d">>, unit |-> <<"C", "o", "u", "n", "t", "/", "S", "e", "c", "o", "n", "d">>],
      [name |-> <<"P", "a", "r", "t", "i", "t", "i", "o", "n", "C", "o", "u", "n", "t">>, description |-> <<"N", "u", "m", "b", "e", "r", " ", "o", "f", " ", "P", "a", "r", "t", "i", "t", "i", "o", "n", "s">>, unit |-> <<"C", "o", "u", "n", "t">>],
      [name |-> <<"T", "o", "p", "i", "c", "C", "o", "u", "n", "t">>, description |-> <<"N", "u", "m", "b", "e", "r", " ", "o", "f", " ", "T", "o", "p", "i", "c", "s">>, unit |-> <<"C", "o", "u", "n", "t">>],
      [name |-> <<"O", "f", "f", "l", "i", "n", "e", "P", "a", "r", "t", "i", "t", "i", "o", "n", "s", "C", "o", "u", "n", "t">>, description |-> <<"O", "f", "f", "l", "i", "n", "e", " ", "P", "a", "r", "t", "i", "t", "i", "o", "n", "s", " ", "C", "o", "u", "n", "t">>, unit |-> <<"C", "o", "u", "n", "t">>],
      [name |-> <<"U", "n", "d", "e", "r", "R", "e", "p", "l", "i", "c", "a", "t", "e", "d", "P", "a", "r", "t", "i", "t", "i", "o", "n", "s">>, description |-> <<"U", "n", "d", "e", "r", " ", "R", "e", "p", "l", "i", "c", "a", "t", "e", "d", " ", "P", "a", "r", "t", "i", "t", "i", "o", "n", "s">>, unit |-> <<"C", "o", "u", "n", "t">>],
      [name |-> <<"A", "c", "t", "i", "v", "e", "C", "o", "n", "t", "r", "o", "l", "l", "e", "r", "C", "o", "u", "n", "t">>, description |-> <<"A", "c", "t", "i", "v", "e", " ", "C", "o", "n", "t", "r", "o", "l", "l", "e", "r", " ", "C", "o", "u", "n", "t">>, unit |-> <<"C", "o", "u", "n", "t">>],
      [name |-> <<"G", "l", "o", "b", "a", "l", "T", "o", "p", "i", "c", "C", "o", "u", "n", "t">>, description |-> <<"G", "l", "o", "b", "a", "l", " ", "T", "o", "p", "i", "c", " ", "C", "o", "u", "n", "t">>, unit |-> <<"C", "o", "u", "n", "t">>],
      [name |-> <<"G", "l", "o", "b", "a", "l", "P", "a", "r", "t", "i", "t", "i", "o", "n", "C", "o", "u", "n", "t">>, description |-> <<"G", "l", "o", "b", "a", "l", " ", "P", "a", "r", "t", "i", "t", "i", "o", "n", " ", "C", "o", "u", "n", "t">>, unit |-> <<"C", "o", "u", "n", "t">>]>>

\* the metrics that are copied into the summary
SummaryMetrics ==
    {<<"T", "o", "p", "i", "c", "C", "o", "u", "n", "t">>, <<"P", "a", "r", "t", "i", "t", "i", "o", "n", "C", "o", "u", "n", "t">>, <<"G", "l", "o", "b", "a", "l", "T", "o", "p", "i", "c", "C", "o", "u", "n", "t">>, <<"G", "l", "o", "b", "a", "l", "P", "a", "r", "t", "i", "t", "i", "o", "n", "C", "o", "u", "n", "t">>}

\* what get_metric_statistics may do for one metric: answer with datapoints,
\* answer with none, raise ClientError, or raise another exception
MetricAnswers == {"datapoints", "empty", "ClientError", "Exception"}

\* the decimal digits, from 0
DecimalDigits == <<"0", "1", "2", "3", "4", "5", "6", "7", "8", "9">>
\* the int n, for n in 0..99
int(n) ==
    IF n < 10 THEN PyInt(<<DecimalDigits[n + 1]>>)
    ELSE PyInt(<<DecimalDigits[(n \div 10) + 1], DecimalDigits[(n % 10) + 1]>>)

\* a datapoint of an answer: its Timestamp, a time numbered from 1, and its
\* statistics, which have one value in the model and may be missing
Datapoint(timestamp, value) ==
    [Timestamp |-> timestamp, has |-> value # 0, value |-> value]

\* dp.get('Average', default), and likewise for Maximum and Minimum
dp_get(dp, default) == IF dp.has THEN int(dp.value) ELSE default

\* dp['Timestamp'].isoformat()
isoformat(timestamp) ==
    PyStr(<<"2", "0", "2", "4", "-", "0", "1", "-", "0", "1", "T", "0", "0", ":", "0", "0", ":", "0">> \o <<DecimalDigits[timestamp + 1]>>)

\* the datapoints that every answer with datapoints has in a run of the
\* script
OneDatapoint == <<Datapoint(1, 1)>>

\* the way CloudWatch behaves during one call of get_cluster_metrics: whether
\* boto3.client('cloudwatch') succeeds, the answer for each metric in turn,
\* and the datapoints of an answer that has some.  The behaviours in a run
\* of the script: the same answer for every metric, and datapoints for every
\* metric but TopicCount, which has none
CloudWatchBehaviours ==
    {[client |-> FALSE, answers |-> [j \in 1..Len(metrics_to_get) |-> "datapoints"],
      datapoints |-> OneDatapoint]}
        \cup {[client |-> TRUE, answers |-> [j \in 1..Len(metrics_to_get) |-> a],
               datapoints |-> OneDatapoint] :
                a \in {"datapoints", "ClientError", "Exception"}}
        \cup {[client |-> TRUE,
               answers |-> [j \in 1..Len(metrics_to_get) |->
                                IF j = k THEN a ELSE "datapoints"],
               datapoints |-> OneDatapoint] :
                k \in {5}, a \in {"empty"}}

\* the values of a broker metric's datapoint in the model: the three
\* statistics are 1
LatestValue ==
    PyDict(<<[k |-> <<"a", "v", "e", "r", "a", "g", "e">>, v |-> PyInt(<<"1">>)],
             [k |-> <<"m", "a", "x", "i", "m", "u", "m">>, v |-> PyInt(<<"1">>)],
             [k |-> <<"m", "i", "n", "i", "m", "u", "m">>, v |-> PyInt(<<"1">>)],
             [k |-> <<"t", "i", "m", "e", "s", "t", "a", "m", "p">>, v |-> PyStr(<<"2", "0", "2", "4", "-", "0", "1", "-", "0", "1", "T", "0", "0", ":", "0", "0", ":", "0", "0">>)]>>)

\* (mutant) the last datapoint of the answer is taken for the latest
latest_datapoint_last(datapoints) == datapoints[Len(datapoints)]

\* max(response['Datapoints'], key=lambda x: x['Timestamp']): the first of
\* the datapoints that no datapoint is later than
latest_datapoint(datapoints) ==
    LET latest(j) == \A n \in 1..Len(datapoints) :
                        datapoints[n].Timestamp <= datapoints[j].Timestamp
    IN datapoints[CHOOSE j \in 1..Len(datapoints) :
                    latest(j) /\ \A n \in 1..(j - 1) : ~latest(n)]

\* 'latest_value' of a metric's entry
latest_value(datapoints) ==
    LET latest == latest_datapoint(datapoints)
    IN PyDict(<<[k |-> <<"a", "v", "e", "r", "a", "g", "e">>, v |-> dp_get(latest, PyNone)],
                [k |-> <<"m", "a", "x", "i", "m", "u", "m">>, v |-> dp_get(latest, PyNone)],
                [k |-> <<"m", "i", "n", "i", "m", "u", "m">>, v |-> dp_get(latest, PyNone)],
                [k |-> <<"t", "i", "m", "e", "s", "t", "a", "m", "p">>, v |-> isoformat(latest.Timestamp)]>>)

\* 'all_datapoints' of a metric's entry
all_datapoints(datapoints) ==
    PyList([n \in 1..Len(datapoints) |->
        PyDict(<<[k |-> <<"t", "i", "m", "e", "s", "t", "a", "m", "p">>, v |-> isoformat(datapoints[n].Timestamp)],
                 [k |-> <<"a", "v", "e", "r", "a", "g", "e">>, v |-> dp_get(datapoints[n], PyNone)],
                 [k |-> <<"m", "a", "x", "i", "m", "u", "m">>, v |-> dp_get(datapoints[n], PyNone)],
                 [k |-> <<"m", "i", "n", "i", "m", "u", "m">>, v |-> dp_get(datapoints[n], PyNone)]>>)])

\* what is written for a metric whose answer has these datapoints
Written(datapoints) ==
    [latest_value |-> latest_value(datapoints),
     all_datapoints |-> all_datapoints(datapoints),
     summary |-> dp_get(latest_datapoint(datapoints), int(0))]

\* cluster_metrics['metrics'][name] of a metric that has datapoints
metric_entry(metric_info, w) ==
    PyDict(<<[k |-> <<"d", "e", "s", "c", "r", "i", "p", "t", "i", "o", "n">>, v |-> PyStr(metric_info.description)],
             [k |-> <<"u", "n", "i", "t">>, v |-> PyStr(metric_info.unit)],
             [k |-> <<"l", "a", "t", "e", "s", "t", "_", "v", "a", "l", "u", "e">>, v |-> w.latest_value],
             [k |-> <<"a", "l", "l", "_", "d", "a", "t", "a", "p", "o", "i", "n", "t", "s">>, v |-> w.all_datapoints]>>)

\* `for metric_info in metrics_to_get` from the j-th metric on; w: what is
\* written for a metric that has datapoints; acc: the
\* entries of 'metrics' and 'summary', the metrics requested and the lines
\* logged so far.  An exception that is no ClientError leaves the loop
RECURSIVE metrics_loop(_, _, _, _, _)
metrics_loop(j, answers, w, cluster_name, acc) ==
    IF j > Len(metrics_to_get) THEN acc
    ELSE LET metric_info == metrics_to_get[j]
             asked == [acc EXCEPT !.requested = Append(@, metric_info.name)]
         IN CASE answers[j] = "datapoints" ->
                    metrics_loop(j + 1, answers, w, cluster_name,
                        [asked EXCEPT
                            !.metrics = Append(@, [k |-> metric_info.name,
                                                   v |-> metric_entry(metric_info, w)]),
                            !.summary = IF metric_info.name \in SummaryMetrics
                                        THEN Append(@, [k |-> metric_info.name,
                                                        v |-> w.summary])
                                        ELSE @])
              [] answers[j] = "empty" ->
                    metrics_loop(j + 1, answers, w, cluster_name,
                        [asked EXCEPT !.logs = Append(@,
                            Message("logger.warning: No datapoints found for metric",
                                    metric_info.name))])
              [] answers[j] = "ClientError" ->
                    metrics_loop(j + 1, answers, w, cluster_name,
                        [asked EXCEPT !.logs = Append(@,
                            Message("logger.error: Error getting metric",
                                    metric_info.name))])
              [] answers[j] = "Exception" ->
                    [asked EXCEPT !.raised = TRUE]

\* get_cluster_metrics(cluster_arn, cluster_name, start_time, end_time) while
\* CloudWatch behaves as cw: the dict of the cluster's metrics, or None with
\* an error logged when an exception that is no ClientError was raised
get_cluster_metrics(cluster_arn, cluster_name, cw) ==
    LET failed == Message("logger.error: Error getting CloudWatch metrics for cluster",
                          cluster_name.s)
        w == Written(cw.datapoints)
        r == metrics_loop(1, cw.answers, w, cluster_name,
                [metrics |-> <<>>, summary |-> <<>>, requested |-> <<>>,
                 logs |-> <<>>, raised |-> FALSE])
    IN IF ~cw.client THEN [val |-> PyNone, requested |-> <<>>, logs |-> <<failed>>]
       ELSE IF r.raised
            THEN [val |-> PyNone, requested |-> r.requested, logs |-> Append(r.logs, failed)]
       ELSE [val |-> PyDict(<<[k |-> <<"c", "l", "u", "s", "t", "e", "r", "_", "n", "a", "m", "e">>, v |-> cluster_name],
                              [k |-> <<"c", "l", "u", "s", "t", "e", "r", "_", "a", "r", "n">>, v |-> cluster_arn],
                              [k |-> <<"m", "e", "t", "r", "i", "c", "s">>, v |-> PyDict(r.metrics)],
                              [k |-> <<"s", "u", "m", "m", "a", "r", "y">>, v |-> PyDict(r.summary)]>>),
             requested |-> r.requested, logs |-> r.logs]

----------------------------------------------------------------------------
(* list_msk_cloudwatch_metrics.py: get_broker_metrics, the summary and the *)
(* JSON file.                                                              *)

\* brokers in the largest answer of list_nodes
MaxBrokers == 1

\* a dict key that is an int: the marker "int" before its digits (a key that
\* is a str is its characters, each one character long)
IntKey(digits) == <<"int">> \o digits
IsIntKey(k) == k # <<>> /\ k[1] = "int"

\* str(key) of a dict key
key_str(k) == IF IsIntKey(k) THEN Tail(k) ELSE k

broker_metrics_list ==
    <<<<"B", "y", "t", "e", "s", "I", "n", "P", "e", "r", "S", "e", "c">>, <<"B", "y", "t", "e", "s", "O", "u", "t", "P", "e", "r", "S", "e", "c">>, <<"M", "e", "s", "s", "a", "g", "e", "s", "I", "n", "P", "e", "r", "S", "e", "c">>, <<"P", "a", "r", "t", "i", "t", "i", "o", "n", "C", "o", "u", "n", "t">>,
      <<"O", "f", "f", "l", "i", "n", "e", "P", "a", "r", "t", "i", "t", "i", "o", "n", "s", "C", "o", "u", "n", "t">>, <<"U", "n", "d", "e", "r", "R", "e", "p", "l", "i", "c", "a", "t", "e", "d", "P", "a", "r", "t", "i", "t", "i", "o", "n", "s">>>>

\* what the account may do during get_broker_metrics: list_nodes raises
\* ClientError, something raises another exception, or list_nodes answers
\* with n brokers and get_metric_statistics gives every broker metric the
\* same answer
BrokerBehaviours ==
    {[nodes |-> e, n |-> 0, answer |-> "datapoints"] : e \in {"ClientError", "Exception"}}
        \cup {[nodes |-> "ok", n |-> n, answer |-> "datapoints"] : n \in 1..MaxBrokers}
        \cup {[nodes |-> "ok", n |-> 1, answer |-> "ClientError"]}

\* broker_metrics[broker_id] of the broker with id n
broker_entry(n, answer) ==
    PyDict(<<[k |-> <<"b", "r", "o", "k", "e", "r", "_", "i", "d">>, v |-> PyInt(<<Digits[n]>>)],
             [k |-> <<"m", "e", "t", "r", "i", "c", "s">>,
              v |-> PyDict(IF answer = "datapoints"
                           THEN [j \in 1..Len(broker_metrics_list) |->
                                    [k |-> broker_metrics_list[j],
                                     v |-> PyDict(<<[k |-> <<"l", "a", "t", "e", "s", "t", "_", "v", "a", "l", "u", "e">>,
                                                     v |-> LatestValue]>>)]]
                           ELSE <<>>)]>>)

\* get_broker_metrics(cluster_arn, cluster_name, start_time, end_time): the
\* dict of the brokers' metrics, its keys the broker ids as list_nodes gives
\* them (numbers); {} when list_nodes or anything else fails
get_broker_metrics(cluster_arn, cluster_name, b) ==
    CASE b.nodes = "ClientError" ->
            [val |-> PyDict(<<>>),
             logs |-> <<Message("logger.warning: Could not get broker nodes for cluster",
                                cluster_name.s)>>]
      [] b.nodes = "Exception" ->
            [val |-> PyDict(<<>>),
             logs |-> <<Message("logger.error: Error getting broker metrics for cluster",
                                cluster_name.s)>>]
      [] b.nodes = "ok" ->
            [val |-> PyDict([n \in 1..b.n |->
                                [k |-> IntKey(<<Digits[n]>>), v |-> broker_entry(n, b.answer)]]),
             logs |-> <<>>]

\* print_cluster_summary(cluster_metrics, broker_metrics): the lines printed
\* (one line of the model for each block of the summary)
print_cluster_summary(cluster_metrics, broker_metrics) ==
    IF ~truthy(cluster_metrics) THEN <<>>
    ELSE LET summary == get(cluster_metrics, <<"s", "u", "m", "m", "a", "r", "y">>, PyDict(<<>>))
             metrics == get(cluster_metrics, <<"m", "e", "t", "r", "i", "c", "s">>, PyDict(<<>>))
         IN <<Message("CLUSTER", get(cluster_metrics, <<"c", "l", "u", "s", "t", "e", "r", "_", "n", "a", "m", "e">>, PyNone).s),
              Message("Topics", str(get(summary, <<"T", "o", "p", "i", "c", "C", "o", "u", "n", "t">>, PyStr(<<"N", "/", "A">>)))),
              Message("Partitions", str(get(summary, <<"P", "a", "r", "t", "i", "t", "i", "o", "n", "C", "o", "u", "n", "t">>, PyStr(<<"N", "/", "A">>))))>>
            \o [j \in 1..Len(metrics.entries) |->
                    Message("metric", metrics.entries[j].k)]
            \o (IF truthy(broker_metrics)
                THEN <<Message("BROKER METRICS", <<>>)>>
                        \o [j \in 1..Len(broker_metrics.entries) |->
                                Message("Broker", key_str(broker_metrics.entries[j].k))]
                ELSE <<>>)

\* the name of the file of save_metrics_to_json, without its timestamp
metrics_filename(cluster_metrics) ==
    <<"m", "s", "k", "_", "c", "l", "o", "u", "d", "w", "a", "t", "c", "h", "_", "m", "e", "t", "r", "i", "c", "s", "_">> \o get(cluster_metrics, <<"c", "l", "u", "s", "t", "e", "r", "_", "n", "a", "m", "e">>, PyNone).s

\* output_data of save_metrics_to_json
output_data(cluster_metrics, broker_metrics) ==
    PyDict(<<[k |-> <<"c", "l", "u", "s", "t", "e", "r", "_", "m", "e", "t", "r", "i", "c", "s">>, v |-> cluster_metrics],
             [k |-> <<"b", "r", "o", "k", "e", "r", "_", "m", "e", "t", "r", "i", "c", "s">>, v |-> broker_metrics],
             [k |-> <<"g", "e", "n", "e", "r", "a", "t", "e", "d", "_", "a", "t">>, v |-> PyStr(<<"2", "0", "2", "4", "-", "0", "1", "-", "0", "1", "T", "0", "0", ":", "0", "0", ":", "0", "0">>)]>>)

\* save_metrics_to_json(cluster_metrics, broker_metrics): the file is
\* written, or the write fails and the error is logged; it does not raise
save_metrics_to_json(cluster_metrics, broker_metrics, written) ==
    IF ~truthy(cluster_metrics) THEN [files |-> <<>>, lines |-> <<>>]
    ELSE IF written
    THEN [files |-> <<[format |-> "json",
                       filename |-> metrics_filename(cluster_metrics),
                       payload |-> output_data(cluster_metrics, broker_metrics)]>>,
          lines |-> <<Message("Detailed metrics saved to",
                              metrics_filename(cluster_metrics))>>]
    ELSE [files |-> <<>>,
          lines |-> <<Message("logger.error: Error saving to file", <<>>)>>]

----------------------------------------------------------------------------
(* Runs of the MSK scripts.  args.hours only sets the time range of the    *)
(* queries and is left out.  The two except clauses at the end of the      *)
(* CloudWatch script's main cannot be reached: every function main calls   *)
(* catches Exception itself.                                               *)

MskScripts == {"list_msk_cloudwatch_metrics.py", "list_msk_clusters.py"}

\* the command lines of list_msk_cloudwatch_metrics.py
CloudWatchArgSets ==
    [cluster_arn : {PyNone, PyStr(<<"a", "r", "n", "9">>)},
     save_json : BOOLEAN,
     broker_metrics : BOOLEAN]

\* the variables of the VM lister, which an MSK script leaves alone
azureVars ==
    <<system, callVars, history, subscriptions, sub_idx, vms, vm_idx, all_vms_info>>

InitMsk ==
    /\ system = "Linux"
    /\ fn = "none"
    /\ command = <<>>
    /\ methods = <<>>
    /\ i = 1
    /\ calls = <<>>
    /\ log = <<>>
    /\ pc = "idle"
    /\ retval = PyNone
    /\ history = <<>>
    /\ subscriptions = PyNone
    /\ sub_idx = 0
    /\ vms = PyNone
    /\ vm_idx = 0
    /\ all_vms_info = <<>>
    /\ script \in MskScripts
    /\ mpc = "start"
    /\ args \in (IF script = "list_msk_cloudwatch_metrics.py"
                 THEN CloudWatchArgSets ELSE {NoArgs})
    /\ out = <<>>
    /\ exit_code = 0
    /\ files = <<>>
    /\ clusters = <<>>
    /\ cluster_idx = 1
    /\ reread = <<>>

\* the one cluster of --cluster-arn
specified_cluster(cluster_arn) ==
    PyDict(<<[k |-> <<"C", "l", "u", "s", "t", "e", "r", "A", "r", "n">>, v |-> cluster_arn],
             [k |-> <<"C", "l", "u", "s", "t", "e", "r", "N", "a", "m", "e">>, v |-> PyStr(<<"S", "p", "e", "c", "i", "f", "i", "e", "d", " ", "C", "l", "u", "s", "t", "e", "r">>)]>>)

\* main of list_msk_cloudwatch_metrics.py up to its loop; parsed: the
\* command line is one the parser accepts
cloudwatch_main_start ==
    /\ script = "list_msk_cloudwatch_metrics.py"
    /\ mpc = "start"
    /\ \E parsed \in BOOLEAN, o \in ListClustersOutcomes :
        IF ~parsed
        THEN /\ out' = out \o <<Message("usage", <<>>)>>
             /\ Exit(UsageStatus)
             /\ clusters' = clusters
        ELSE LET banner == <<Message("AWS MSK CloudWatch Metrics Lister", <<>>),
                             Message("Time range", <<>>)>>
                 got == IF truthy(args.cluster_arn)
                        THEN [val |-> <<specified_cluster(args.cluster_arn)>>,
                              logs |-> <<>>]
                        ELSE get_msk_clusters(o)
             IN /\ clusters' = got.val
                /\ IF got.val = <<>>
                   THEN /\ out' = out \o banner \o got.logs
                                \o <<Message("No MSK clusters found or accessible.", <<>>)>>
                        /\ Exit(0)
                   ELSE /\ out' = out \o banner \o got.logs
                        /\ mpc' = "for cluster"
                        /\ UNCHANGED exit_code
    /\ cluster_idx' = 1
    /\ UNCHANGED <<args, files, script, reread, azureVars>>

\* (mutant) a cluster whose metrics are unavailable ends the loop
cloudwatch_main_cluster_stops_on_failure ==
    /\ script = "list_msk_cloudwatch_metrics.py"
    /\ mpc = "for cluster"
    /\ cluster_idx <= Len(clusters)
    /\ \E cw \in CloudWatchBehaviours, b \in BrokerBehaviours, written \in BOOLEAN :
        LET cluster == clusters[cluster_idx]
            cluster_arn == get(cluster, <<"C", "l", "u", "s", "t", "e", "r", "A", "r", "n">>, PyNone)
            cluster_name == get(cluster, <<"C", "l", "u", "s", "t", "e", "r", "N", "a", "m", "e">>, PyNone)
            analyzing == <<Message("Analyzing cluster", cluster_name.s)>>
            cluster_metrics == get_cluster_metrics(cluster_arn, cluster_name, cw)
            broker_metrics ==
                IF args.broker_metrics
                THEN get_broker_metrics(cluster_arn, cluster_name, b)
                ELSE [val |-> PyDict(<<>>), logs |-> <<>>]
            saved ==
                IF args.save_json
                THEN save_metrics_to_json(cluster_metrics.val, broker_metrics.val, written)
                ELSE [files |-> <<>>, lines |-> <<>>]
        IN IF ~truthy(cluster_metrics.val)
           THEN /\ out' = out \o analyzing \o cluster_metrics.logs
                        \o <<Message("Could not get metrics for cluster", cluster_name.s)>>
                /\ files' = files
                /\ cluster_idx' = Len(clusters) + 1
           ELSE /\ out' = out \o analyzing \o cluster_metrics.logs \o broker_metrics.logs
                        \o print_cluster_summary(cluster_metrics.val, broker_metrics.val)
                        \o saved.lines
                /\ files' = files \o saved.files
                /\ cluster_idx' = cluster_idx + 1
    /\ UNCHANGED <<mpc, exit_code, args, clusters, script, reread, azureVars>>

\* one turn of `for cluster in clusters` of list_msk_cloudwatch_metrics.py:
\* the metrics of the cluster, and then either the line that they could not
\* be got, or the broker metrics, the summary and the JSON file asked for
cloudwatch_main_cluster ==
    /\ script = "list_msk_cloudwatch_metrics.py"
    /\ mpc = "for cluster"
    /\ cluster_idx <= Len(clusters)
    /\ \E cw \in CloudWatchBehaviours, b \in BrokerBehaviours, written \in BOOLEAN :
        LET cluster == clusters[cluster_idx]
            cluster_arn == get(cluster, <<"C", "l", "u", "s", "t", "e", "r", "A", "r", "n">>, PyNone)
            cluster_name == get(cluster, <<"C", "l", "u", "s", "t", "e", "r", "N", "a", "m", "e">>, PyNone)
            analyzing == <<Message("Analyzing cluster", cluster_name.s)>>
            cluster_metrics == get_cluster_metrics(cluster_arn, cluster_name, cw)
            broker_metrics ==
                IF args.broker_metrics
                THEN get_broker_metrics(cluster_arn, cluster_name, b)
                ELSE [val |-> PyDict(<<>>), logs |-> <<>>]
            saved ==
                IF args.save_json
                THEN save_metrics_to_json(cluster_metrics.val, broker_metrics.val, written)
                ELSE [files |-> <<>>, lines |-> <<>>]
        IN IF ~truthy(cluster_metrics.val)
           THEN /\ out' = out \o analyzing \o cluster_metrics.logs
                        \o <<Message("Could not get metrics for cluster", cluster_name.s)>>
                /\ files' = files
           ELSE /\ out' = out \o analyzing \o cluster_metrics.logs \o broker_metrics.logs
                        \o print_cluster_summary(cluster_metrics.val, broker_metrics.val)
                        \o saved.lines
                /\ files' = files \o saved.files
    /\ cluster_idx' = cluster_idx + 1
    /\ UNCHANGED <<mpc, exit_code, args, clusters, script, reread, azureVars>>

\* the loop of list_msk_cloudwatch_metrics.py is over: main returns
cloudwatch_main_end ==
    /\ script = "list_msk_cloudwatch_metrics.py"
    /\ mpc = "for cluster"
    /\ cluster_idx > Len(clusters)
    /\ Exit(0)
    /\ UNCHANGED <<out, args, files, clusters, cluster_idx, script, reread, azureVars>>

\* what a call of the MSK API inside the loop of list_msk_clusters may do
ApiOutcomes == {"ok", "ClientError", "Exception"}

\* (mutant) an account without clusters still gets its JSON file
list_msk_clusters_start_saves_empty ==
    /\ script = "list_msk_clusters.py"
    /\ mpc = "start"
    /\ \E o \in ListClustersOutcomes :
        LET banner == <<Message("AWS MSK Cluster Lister", <<>>)>>
        IN CASE o.kind = "NoCredentialsError" ->
                    /\ out' = out \o banner
                            \o <<Message("Error: AWS credentials not found.", <<>>)>>
                    /\ Exit(0)
                    /\ clusters' = clusters
             [] o.kind = "ClientError" ->
                    /\ out' = out \o banner \o <<Message("AWS Error", <<>>)>>
                    /\ Exit(0)
                    /\ clusters' = clusters
             [] o.kind = "Exception" ->
                    /\ out' = out \o banner \o <<Message("Unexpected error", <<>>)>>
                    /\ Exit(0)
                    /\ clusters' = clusters
             [] o.kind = "ok" ->
                    /\ out' = out \o banner
                            \o <<Message("Found MSK cluster(s)", <<Len(o.list)>>)>>
                    /\ clusters' = o.list
                    /\ mpc' = "for cluster"
                    /\ UNCHANGED exit_code
    /\ cluster_idx' = 1
    /\ UNCHANGED <<args, files, script, reread, azureVars>>

\* list_msk_clusters.py up to the loop of list_msk_clusters: the banner, the
\* call of list_clusters, and the return when it raised or found no cluster
list_msk_clusters_start ==
    /\ script = "list_msk_clusters.py"
    /\ mpc = "start"
    /\ \E o \in ListClustersOutcomes :
        LET banner == <<Message("AWS MSK Cluster Lister", <<>>)>>
        IN CASE o.kind = "NoCredentialsError" ->
                    /\ out' = out \o banner
                            \o <<Message("Error: AWS credentials not found.", <<>>)>>
                    /\ Exit(0)
                    /\ clusters' = clusters
             [] o.kind = "ClientError" ->
                    /\ out' = out \o banner \o <<Message("AWS Error", <<>>)>>
                    /\ Exit(0)
                    /\ clusters' = clusters
             [] o.kind = "Exception" ->
                    /\ out' = out \o banner \o <<Message("Unexpected error", <<>>)>>
                    /\ Exit(0)
                    /\ clusters' = clusters
             [] o.kind = "ok" /\ o.list = <<>> ->
                    /\ out' = out \o banner
                            \o <<Message("No MSK clusters found in this AWS account.", <<>>)>>
                    /\ Exit(0)
                    /\ clusters' = clusters
             [] o.kind = "ok" /\ o.list # <<>> ->
                    /\ out' = out \o banner
                            \o <<Message("Found MSK cluster(s)", <<Len(o.list)>>)>>
                    /\ clusters' = o.list
                    /\ mpc' = "for cluster"
                    /\ UNCHANGED exit_code
    /\ cluster_idx' = 1
    /\ UNCHANGED <<args, files, script, reread, azureVars>>

\* one turn of `for cluster in response['ClusterInfoList']`: the lines of
\* the cluster, its brokers when it is ACTIVE, its tags.  A ClientError of
\* list_nodes or list_tags_for_resource is reported and the loop goes on;
\* another exception ends list_msk_clusters in its `except Exception`
list_msk_clusters_cluster ==
    /\ script = "list_msk_clusters.py"
    /\ mpc = "for cluster"
    /\ cluster_idx <= Len(clusters)
    /\ \E nodes \in ApiOutcomes, tags \in ApiOutcomes :
        LET cluster == clusters[cluster_idx]
            head == <<Message("Cluster Name", get(cluster, <<"C", "l", "u", "s", "t", "e", "r", "N", "a", "m", "e">>, PyNone).s)>>
            active == get(cluster, <<"S", "t", "a", "t", "e">>, PyNone) = PyStr(<<"A", "C", "T", "I", "V", "E">>)
            brokers == IF ~active THEN <<>>
                       ELSE IF nodes = "ok" THEN <<Message("Active Brokers", <<>>)>>
                       ELSE <<Message("Could not get broker info", <<>>)>>
            tagged == IF tags = "ok" THEN <<Message("Tags:", <<>>)>>
                      ELSE <<Message("Tags: Not available", <<>>)>>
        IN IF active /\ nodes = "Exception"
           THEN /\ out' = out \o head \o <<Message("Unexpected error", <<>>)>>
                /\ Exit(0)
                /\ cluster_idx' = cluster_idx
           ELSE IF tags = "Exception"
           THEN /\ out' = out \o head \o brokers \o <<Message("Unexpected error", <<>>)>>
                /\ Exit(0)
                /\ cluster_idx' = cluster_idx
           ELSE /\ out' = out \o head \o brokers \o tagged
                /\ cluster_idx' = cluster_idx + 1
                /\ UNCHANGED <<mpc, exit_code>>
    /\ UNCHANGED <<args, files, clusters, script, reread, azureVars>>

\* after the loop of list_msk_clusters: the ClusterInfoList is written to
\* msk_clusters_<timestamp>.json; a failure of the write is caught by
\* `except Exception`
list_msk_clusters_save ==
    /\ script = "list_msk_clusters.py"
    /\ mpc = "for cluster"
    /\ cluster_idx > Len(clusters)
    /\ \E written \in BOOLEAN :
        IF written
        THEN /\ files' = Append(files, [format |-> "json",
                                        filename |-> <<"m", "s", "k", "_", "c", "l", "u", "s", "t", "e", "r", "s", "_">>,
                                        payload |-> PyList(clusters)])
             /\ out' = Append(out, Message("Detailed cluster information saved to",
                                           <<"m", "s", "k", "_", "c", "l", "u", "s", "t", "e", "r", "s", "_">>))
        ELSE /\ files' = files
             /\ out' = Append(out, Message("Unexpected error", <<>>))
    /\ Exit(0)
    /\ UNCHANGED <<args, clusters, cluster_idx, script, reread, azureVars>>

\* an interrupt while an MSK script runs: neither script handles
\* KeyboardInterrupt, and the process ends with a traceback
msk_interrupt ==
    /\ script \in MskScripts
    /\ mpc # "exited"
    /\ out' = Append(out, Message("Traceback: KeyboardInterrupt", <<>>))
    /\ mpc' = "exited"
    /\ exit_code' \in UnhandledInterruptStatuses
    /\ UNCHANGED <<args, files, clusters, cluster_idx, script, reread, azureVars>>

NextMsk ==
    \/ cloudwatch_main_start
    \/ cloudwatch_main_cluster
    \/ cloudwatch_main_end
    \/ list_msk_clusters_start
    \/ list_msk_clusters_cluster
    \/ list_msk_clusters_save
    \/ msk_interrupt

SpecMsk == InitMsk /\ [][NextMsk]_vars

----------------------------------------------------------------------------
(* Properties of the runs of the MSK scripts.                              *)

\* the line with this text and this argument was printed or logged
PrintedFor(text, arg) == \E j \in 1..Len(out) : out[j] = Message(text, arg)

\* the name of the k-th cluster of the run
cluster_name_at(k) == get(clusters[k], <<"C", "l", "u", "s", "t", "e", "r", "N", "a", "m", "e">>, PyNone).s

\* the run printed that the metrics of the k-th cluster could not be got
MetricsFailed(k) == PrintedFor("Could not get metrics for cluster", cluster_name_at(k))

\* the run printed the summary of the k-th cluster
Summarized(k) == PrintedFor("CLUSTER", cluster_name_at(k))

\* a run of the CloudWatch script that came to the end of main
CloudWatchDone ==
    script = "list_msk_cloudwatch_metrics.py" /\ mpc = "exited" /\ exit_code = 0

\* C15: in a run of the CloudWatch script that comes to the end of main,
\* every cluster of the list was taken up (its "Analyzing cluster" line is
\* there) and either summarized or reported as failed; a cluster whose
\* metrics call returned None has its error logged, no summary and no file,
\* and the clusters after it are summarized or reported like any other.
C15_FailedClusterSkipped ==
    CloudWatchDone =>
        \A k \in 1..Len(clusters) :
            /\ PrintedFor("Analyzing cluster", cluster_name_at(k))
            /\ MetricsFailed(k) # Summarized(k)
            /\ MetricsFailed(k) =>
                /\ PrintedFor("logger.error: Error getting CloudWatch metrics for cluster",
                              cluster_name_at(k))
                /\ \A j \in 1..Len(files) :
                    files[j].filename # <<"m", "s", "k", "_", "c", "l", "o", "u", "d", "w", "a", "t", "c", "h", "_", "m", "e", "t", "r", "i", "c", "s", "_">> \o cluster_name_at(k)

C15_Witness ==
    /\ CloudWatchDone
    /\ Len(clusters) = MaxClusters
    /\ MetricsFailed(1)
    /\ Summarized(2)
    /\ Len(files) = 1
    /\ files[1].filename = <<"m", "s", "k", "_", "c", "l", "o", "u", "d", "w", "a", "t", "c", "h", "_", "m", "e", "t", "r", "i", "c", "s", "_">> \o cluster_name_at(2)

\* the line an MSK script prints when the list of clusters is empty
NoClustersLine ==
    \/ Printed("No MSK clusters found in this AWS account.")
    \/ Printed("No MSK clusters found or accessible.")

\* an MSK script has ended without a cluster to work on
EndedWithoutClusters == script \in MskScripts /\ mpc = "exited" /\ clusters = <<>>

\* a line that reports a rejected command line or an error of list_clusters
ListingErrorLine ==
    \/ Printed("usage")
    \/ Printed("Error: AWS credentials not found.")
    \/ Printed("AWS Error")
    \/ Printed("Unexpected error")

\* C18: when the list of clusters is empty, list_msk_clusters.py and the
\* CloudWatch script print their "No MSK clusters found" line, exit with
\* code 0 without a traceback and write no file: a run that printed the line
\* has ended so, and a run that ended normally without clusters and without
\* an error of its own has printed the line.
C18_EmptyListing ==
    /\ (script \in MskScripts /\ NoClustersLine) =>
            /\ mpc = "exited" /\ exit_code = 0
            /\ files = <<>>
            /\ ~Printed("Traceback: KeyboardInterrupt")
    /\ EndedWithoutClusters => files = <<>>
    /\ (EndedWithoutClusters /\ exit_code = 0 /\ ~ListingErrorLine) => NoClustersLine

C18_Witness ==
    /\ script = "list_msk_clusters.py"
    /\ mpc = "exited"
    /\ out = <<Message("AWS MSK Cluster Lister", <<>>),
               Message("No MSK clusters found in this AWS account.", <<>>)>>
    /\ exit_code = 0
    /\ files = <<>>

----------------------------------------------------------------------------
(* The JSON files: list_msk_topics_partitions.py builds cluster_info and   *)
(* save_cluster_info writes it; save_vms_to_json writes the VM list.       *)

\* topics, partitions of a topic and brokers in the largest Kafka metadata
MaxTopics == 2
MaxPartitions == 2
MaxNodes == 2

\* a dict key with these digits: an int, or the str of the digits
Key(ints, digits) == IF ints THEN IntKey(digits) ELSE digits

\* the metadata of the j-th topic with c partitions, numbered from 0; ints:
\* the keys of the mapping `partitions` are ints
KafkaTopic(j, c, ints) ==
    [name |-> <<"t", Digits[j]>>,
     replication_factor |-> int(1),
     partitions |-> [p \in 1..c |->
                        [id |-> Key(ints, <<DecimalDigits[p]>>), leader |-> int(1),
                         replicas |-> PyList(<<int(1)>>), isr |-> PyList(<<int(1)>>)]]]

TopicLists(ints) ==
    UNION {{[j \in 1..n |-> KafkaTopic(j, cs[j], ints)] : cs \in [1..n -> 1..MaxPartitions]} :
            n \in 0..MaxTopics}

\* what the admin client may give for a cluster: no connection to any
\* bootstrap server, or the metadata of the first server that answers, with
\* its topics and its brokers; ints: the keys of its mappings are ints
Metadata(ints) ==
    {[connected |-> FALSE, topics |-> <<>>, brokers |-> <<>>]}
        \cup {[connected |-> TRUE, topics |-> ts,
               brokers |-> [b \in 1..n |->
                                [id |-> Key(ints, <<Digits[b]>>),
                                 host |-> PyStr(<<"h", Digits[b]>>),
                                 port |-> PyInt(<<"9", "0", "9", "2">>)]]] :
                ts \in TopicLists(ints), n \in 1..MaxNodes}

\* the metadata Kafka gives: partitions and brokers are numbered, and the
\* keys of metadata.topics()[..].partitions and metadata.brokers() are ints
KafkaMetadata == Metadata(TRUE)

\* cluster_info['topics'][topic_name]
topic_entry(topic_metadata) ==
    PyDict(<<[k |-> <<"p", "a", "r", "t", "i", "t", "i", "o", "n", "s">>, v |-> int(Len(topic_metadata.partitions))],
             [k |-> <<"r", "e", "p", "l", "i", "c", "a", "t", "i", "o", "n", "_", "f", "a", "c", "t", "o", "r">>, v |-> topic_metadata.replication_factor],
             [k |-> <<"p", "a", "r", "t", "i", "t", "i", "o", "n", "_", "d", "e", "t", "a", "i", "l", "s">>,
              v |-> PyDict([p \in 1..Len(topic_metadata.partitions) |->
                        [k |-> topic_metadata.partitions[p].id,
                         v |-> PyDict(<<[k |-> <<"l", "e", "a", "d", "e", "r">>, v |-> topic_metadata.partitions[p].leader],
                                        [k |-> <<"r", "e", "p", "l", "i", "c", "a", "s">>, v |-> topic_metadata.partitions[p].replicas],
                                        [k |-> <<"i", "s", "r">>, v |-> topic_metadata.partitions[p].isr]>>)]])]>>)

\* cluster_info['broker_info'][broker_id]
broker_info_entry(broker) ==
    PyDict(<<[k |-> <<"h", "o", "s", "t">>, v |-> broker.host],
             [k |-> <<"p", "o", "r", "t">>, v |-> broker.port],
             [k |-> <<"r", "a", "c", "k">>, v |-> PyNone]>>)

\* what one connection to a bootstrap server does: it fails at the connect
\* (metadata.connected is FALSE), or the metadata is read; reading may raise
\* after `done` topics were taken in (`done` all of them: at
\* metadata.brokers())
Whole(md) == [metadata |-> md, fails |-> FALSE, done |-> Len(md.topics)]
Attempts(ints) ==
    {Whole(md) : md \in Metadata(ints)}
        \cup UNION {{[metadata |-> md, fails |-> TRUE, done |-> d] : d \in 0..Len(md.topics)} :
                        md \in {m \in Metadata(ints) : m.connected}}

\* `for topic_name, topic_metadata in topics.items()` over the first n
\* topics; acc: the fields of cluster_info that the attempts write
RECURSIVE topics_loop(_, _, _)
topics_loop(topics, n, acc) ==
    IF n = 0 THEN acc
    ELSE LET before == topics_loop(topics, n - 1, acc)
         IN [before EXCEPT
                !.topics = set_item(@, topics[n].name, topic_entry(topics[n])),
                !.total_partitions = @ + Len(topics[n].partitions)]

\* `for broker_id, broker in brokers.items()` over the first n brokers
RECURSIVE brokers_loop(_, _, _)
brokers_loop(brokers, n, acc) ==
    IF n = 0 THEN acc
    ELSE LET before == brokers_loop(brokers, n - 1, acc)
         IN [before EXCEPT
                !.broker_info = set_item(@, brokers[n].id, broker_info_entry(brokers[n]))]

\* `for bootstrap_server in bootstrap_servers` from the j-th server on: an
\* attempt that raises is logged and the next server is tried with
\* cluster_info as the attempt left it; the first attempt that does not
\* raise ends the loop
RECURSIVE servers_loop(_, _, _)
servers_loop(attempts, j, acc) ==
    IF j > Len(attempts) THEN acc
    ELSE LET a == attempts[j]
             md == a.metadata
         IN IF ~md.connected THEN servers_loop(attempts, j + 1, acc)
            ELSE LET read == topics_loop(md.topics, a.done,
                                [acc EXCEPT !.total_topics = Len(md.topics)])
                 IN IF a.fails THEN servers_loop(attempts, j + 1, read)
                    ELSE brokers_loop(md.brokers, Len(md.brokers), read)

\* get_cluster_topics_and_partitions(bootstrap_servers, cluster_name) when
\* the connections to the servers go as attempts (one for each server)
get_cluster_topics_and_partitions(bootstrap_servers, cluster_name, attempts) ==
    LET r == servers_loop(attempts, 1,
                [topics |-> <<>>, total_topics |-> 0, total_partitions |-> 0,
                 broker_info |-> <<>>])
    IN PyDict(<<[k |-> <<"c", "l", "u", "s", "t", "e", "r", "_", "n", "a", "m", "e">>, v |-> cluster_name],
                [k |-> <<"b", "o", "o", "t", "s", "t", "r", "a", "p", "_", "s", "e", "r", "v", "e", "r", "s">>, v |-> bootstrap_servers],
                [k |-> <<"t", "o", "p", "i", "c", "s">>, v |-> PyDict(r.topics)],
                [k |-> <<"t", "o", "t", "a", "l", "_", "t", "o", "p", "i", "c", "s">>, v |-> int(r.total_topics)],
                [k |-> <<"t", "o", "t", "a", "l", "_", "p", "a", "r", "t", "i", "t", "i", "o", "n", "s">>, v |-> int(r.total_partitions)],
                [k |-> <<"b", "r", "o", "k", "e", "r", "_", "i", "n", "f", "o">>, v |-> PyDict(r.broker_info)]>>)

\* the cluster names and bootstrap servers of the model
ClusterNames ==
    {get(Cluster(n), <<"C", "l", "u", "s", "t", "e", "r", "N", "a", "m", "e">>, PyNone) : n \in 1..MaxClusters}
        \cup {PyStr(<<"S", "p", "e", "c", "i", "f", "i", "e", "d", " ", "C", "l", "u", "s", "t", "e", "r">>)}
BootstrapServers ==
    {PyList(<<PyStr(<<"b", "-", "1", ":", "9", "0", "9", "2">>)>>),
     PyList(<<PyStr(<<"b", "-", "1", ":", "9", "0", "9", "2">>),
              PyStr(<<"b", "-", "1", ":", "9", "0", "9", "4">>)>>)}

\* the cluster_info dicts the script builds when no attempt raises part-way;
\* ints: the keys of the metadata are ints
ClusterInfos(ints) ==
    {get_cluster_topics_and_partitions(bs, name, [j \in 1..Len(bs.elems) |-> Whole(md)]) :
        bs \in BootstrapServers, name \in ClusterNames, md \in Metadata(ints)}

\* the lists vms_info that main may pass to save_vms_to_json
VmsInfos ==
    {[j \in 1..n |-> format_vm_info(VM(j), PyStr(<<"N", "1">>), d).val] :
        n \in 0..MaxVMs, d \in {PyNone, VMDetails}}

\* output_data of save_vms_to_json
vms_output_data(vms_info) ==
    PyDict(<<[k |-> <<"g", "e", "n", "e", "r", "a", "t", "e", "d", "_", "a", "t">>, v |-> PyStr(<<"2", "0", "2", "4", "-", "0", "1", "-", "0", "1", "T", "0", "0", ":", "0", "0", ":", "0", "0">>)],
             [k |-> <<"t", "o", "t", "a", "l", "_", "v", "m", "s">>, v |-> int(Len(vms_info))],
             [k |-> <<"v", "m", "s">>, v |-> PyList(vms_info)]>>)

\* two spaces for each level of nesting
Indent(level) == [j \in 1..(2 * level) |-> " "]

\* json.dump(obj, f, indent=2, default=str): the text written.  A dict key
\* that is an int is written as the string of its digits; the payloads of
\* the model hold nothing for default=str to convert
RECURSIVE json_dump(_, _)
RECURSIVE json_dump_items(_, _)
RECURSIVE json_dump_members(_, _)
json_dump(v, level) ==
    CASE v.t = "NoneType" -> <<"n", "u", "l", "l">>
      [] v.t = "int" -> v.s
      [] v.t = "str" -> <<"\"">> \o v.s \o <<"\"">>
      [] v.t = "list" ->
            IF v.elems = <<>> THEN <<"[", "]">>
            ELSE <<"[", "\n">> \o json_dump_items(v.elems, level + 1)
                    \o <<"\n">> \o Indent(level) \o <<"]">>
      [] v.t = "dict" ->
            IF v.entries = <<>> THEN <<"{", "}">>
            ELSE <<"{", "\n">> \o json_dump_members(v.entries, level + 1)
                    \o <<"\n">> \o Indent(level) \o <<"}">>
json_dump_items(items, level) ==
    IF items = <<>> THEN <<>>
    ELSE Indent(level) \o json_dump(Head(items), level)
            \o (IF Len(items) > 1 THEN <<",", "\n">> ELSE <<>>)
            \o json_dump_items(Tail(items), level)
json_dump_members(kvs, level) ==
    IF kvs = <<>> THEN <<>>
    ELSE Indent(level) \o <<"\"">> \o key_str(Head(kvs).k) \o <<"\"", ":", " ">>
            \o json_dump(Head(kvs).v, level)
            \o (IF Len(kvs) > 1 THEN <<",", "\n">> ELSE <<>>)
            \o json_dump_members(Tail(kvs), level)

\* the values the JSON files of the model can denote: the payloads of the
\* scripts with every dict key a string, as the keys of a JSON object are
JsonFileValues ==
    ClusterInfos(FALSE) \cup {vms_output_data(vms_info) : vms_info \in VmsInfos}

\* the JSON files of the model: each text with the value it denotes
JsonFiles == {[text |-> json_dump(v, 0), val |-> v] : v \in JsonFileValues}

\* json.load(f): the value the text of the file denotes, or JSONDecodeError
json_load(text) ==
    LET docs == {d \in JsonFiles : d.text = text}
    IN IF docs = {}
       THEN [ok |-> FALSE, val |-> PyNone]
       ELSE [ok |-> TRUE, val |-> (CHOOSE d \in docs : TRUE).val]

JsonScripts == {"list_msk_topics_partitions.py", "list_azure_vms.py"}

InitJson ==
    /\ system = "Linux"
    /\ fn = "none"
    /\ command = <<>>
    /\ methods = <<>>
    /\ i = 1
    /\ calls = <<>>
    /\ log = <<>>
    /\ pc = "idle"
    /\ retval = PyNone
    /\ history = <<>>
    /\ subscriptions = PyNone
    /\ sub_idx = 0
    /\ vms = PyNone
    /\ vm_idx = 0
    /\ all_vms_info = <<>>
    /\ script \in JsonScripts
    /\ mpc = "start"
    /\ args = NoArgs
    /\ out = <<>>
    /\ exit_code = 0
    /\ files = <<>>
    /\ clusters = <<>>
    /\ cluster_idx = 1
    /\ reread = <<>>

\* json.dump of a payload into a file: the file is written, or the write
\* fails and the error is logged
write_json(filename, payload, written) ==
    /\ IF written
       THEN /\ files' = <<[format |-> "json", filename |-> filename,
                           payload |-> payload, text |-> json_dump(payload, 0)]>>
            /\ out' = Append(out, Message("saved to", filename))
            /\ mpc' = "saved"
       ELSE /\ files' = files
            /\ out' = Append(out, Message("logger.error: Error saving to file", <<>>))
            /\ mpc' = "exited"
    /\ UNCHANGED <<args, exit_code, clusters, cluster_idx, script, reread, azureVars>>

\* save_cluster_info(cluster_info) on a cluster_info that
\* get_cluster_topics_and_partitions built from Kafka's metadata
save_cluster_info ==
    /\ script = "list_msk_topics_partitions.py"
    /\ mpc = "start"
    /\ \E cluster_info \in ClusterInfos(TRUE), written \in BOOLEAN :
        write_json(<<"m", "s", "k", "_", "t", "o", "p", "i", "c", "s", "_", "p", "a", "r", "t", "i", "t", "i", "o", "n", "s", "_">> \o get(cluster_info, <<"c", "l", "u", "s", "t", "e", "r", "_", "n", "a", "m", "e">>, PyNone).s,
                   cluster_info, written)

\* save_vms_to_json(vms_info, filename) on a list main collected
save_vms_to_json ==
    /\ script = "list_azure_vms.py"
    /\ mpc = "start"
    /\ \E vms_info \in VmsInfos, written \in BOOLEAN :
        write_json(default_json_filename, vms_output_data(vms_info), written)

\* the file written is read back with json.load
load_json ==
    /\ mpc = "saved"
    /\ reread' = <<json_load(files[1].text)>>
    /\ mpc' = "reread"
    /\ UNCHANGED <<out, files, args, exit_code, clusters, cluster_idx, script, azureVars>>

NextJson ==
    \/ save_cluster_info
    \/ save_vms_to_json
    \/ load_json

SpecJson == InitJson /\ [][NextJson]_vars

\* C19: a payload written to a JSON file and read back is a JSON document
\* whose value equals the payload: the keys of its maps and its scalar
\* values are the same, with the same types.
C19_RoundTripEqual ==
    mpc = "reread" =>
        /\ reread[1].ok
        /\ reread[1].val = files[1].payload

----------------------------------------------------------------------------
(* What the log lines of the account calls carry.                          *)

\* the call under execution is an account call: `az account show` of
\* check_azure_login, or `az account list` of get_subscriptions
AccountCall ==
    \/ fn = "check_azure_login"
    \/ fn = "run_azure_cli_command" /\ command = account_list_command

\* the line carries the standard output of one of the call's processes
CarriesPayload(line) ==
    \E k \in 1..Len(calls) :
        /\ calls[k].outcome.kind = "exit"
        /\ strip(calls[k].outcome.stdout) # <<>>
        /\ line.data = calls[k].outcome.stdout

\* C21: no log line that an account call emits (at the level INFO of the
\* script or above) carries the standard output of a process of the call.
C21_NoPayloadInAccountLogs ==
    AccountCall =>
        \A j \in 1..Len(Emitted(log)) : ~CarriesPayload(Emitted(log)[j])

----------------------------------------------------------------------------
(* Interrupts of the VM lister.                                            *)

\* the lines that report an interrupt: the one of `except KeyboardInterrupt`
\* and the traceback of an interrupt nothing handles
InterruptLines ==
    {Message("Operation cancelled by user.", <<>>),
     Message("Traceback: KeyboardInterrupt", <<>>)}

\* the run of the VM lister was interrupted
Interrupted ==
    script = "list_azure_vms.py" /\ \E j \in 1..Len(out) : out[j] \in InterruptLines

----------------------------------------------------------------------------
(* Empty output, exhaustion, and the commands of the `.cmd` methods.       *)

\* the call's process exited with code zero and printed nothing but
\* whitespace
ExitZeroBlank(c) == ExitZero(c) /\ strip(c.outcome.stdout) = <<>>

\* C23: in run_azure_cli_command an attempt that exits with code zero and
\* prints nothing, or whitespace only, is a failed attempt: its failure is
\* logged (at debug level), nothing is returned for it, and the next method
\* is tried; the call returns after it only when it was the last method,
\* and then None.
C23_BlankOutputIsFailure ==
    fn = "run_azure_cli_command" =>
        \A k \in 1..Len(calls) :
            ExitZeroBlank(calls[k]) =>
                /\ \E j \in 1..Len(log) :
                        log[j] = Line("debug", "Method failed - return code", k, <<>>)
                /\ Len(calls) = k =>
                    /\ pc \in {"loop", "returned"}
                    /\ i = k + 1
                    /\ pc = "returned" => (k = Len(methods) /\ retval = PyNone)

C23_Witness ==
    /\ fn = "run_azure_cli_command"
    /\ Len(calls) = 2
    /\ ExitZeroBlank(calls[1])
    /\ calls[1].outcome.stdout # <<>>
    /\ ExitZeroJson(calls[2])
    /\ pc = "returned"
    /\ retval = json_loads(calls[2].outcome.stdout).val

\* the attempt failed: a non-zero exit code, empty output, output that does
\* not parse, or an exception
Failed(c) ==
    \/ ExitNonZero(c)
    \/ ExitZeroBlank(c)
    \/ Unparsable(c)
    \/ Errored(c)

\* C24: when run_azure_cli_command has returned None, every method of the
\* list was tried exactly once and every attempt failed; when it has
\* returned another value, the last attempt exited with zero and printed
\* JSON; None is never returned after an attempt that exited with zero and
\* printed a JSON document.
C24_NoneMeansExhausted ==
    (fn = "run_azure_cli_command" /\ pc = "returned") =>
        /\ retval = PyNone =>
            /\ Len(calls) = Len(methods)
            /\ \A k \in 1..Len(calls) : calls[k].method = k /\ Failed(calls[k])
        /\ retval # PyNone => ExitZeroJson(calls[Len(calls)])

\* C25: on Windows the methods of run_azure_cli_command that start az.cmd
\* pass it the arguments that the methods that start az pass to az, for
\* every command of the callers: only the name of the program differs.
C25_CmdMethodsSameArguments ==
    (fn = "run_azure_cli_command" /\ is_windows(system)) =>
        /\ program(methods[1]) = AzCmd /\ program(methods[2]) = Az
        /\ program(methods[3]) = AzCmd /\ program(methods[4]) = Az
        /\ arguments(methods[1]) = arguments(methods[2])
        /\ arguments(methods[3]) = arguments(methods[4])

\* ---------------------------------------------------------------------
\* list_msk_topics_partitions.py: one call of
\* get_cluster_topics_and_partitions, over every way the connections to the
\* bootstrap servers may go.  calls holds the attempts that were made, in
\* the order of the servers, and retval the cluster_info returned.

InitTopics ==
    /\ system = "Linux"
    /\ fn = "none"
    /\ command = <<>>
    /\ methods = <<>>
    /\ i = 1
    /\ calls = <<>>
    /\ log = <<>>
    /\ pc = "idle"
    /\ retval = PyNone
    /\ history = <<>>
    /\ subscriptions = PyNone
    /\ sub_idx = 0
    /\ vms = PyNone
    /\ vm_idx = 0
    /\ all_vms_info = <<>>
    /\ script = "list_msk_topics_partitions.py"
    /\ mpc = "start"
    /\ args = NoArgs
    /\ out = <<>>
    /\ exit_code = 0
    /\ files = <<>>
    /\ clusters = <<>>
    /\ cluster_idx = 1
    /\ reread = <<>>

\* the servers are tried until one attempt goes through: the attempts made
\* are those up to the first one that does not raise
Made(attempts) ==
    \A j \in 1..Len(attempts) :
        (attempts[j].metadata.connected /\ ~attempts[j].fails) => j = Len(attempts)

topics_call ==
    /\ mpc = "start"
    /\ \E bs \in BootstrapServers, name \in ClusterNames :
        \E n \in 1..Len(bs.elems) :
            \E attempts \in [1..n -> Attempts(TRUE)] :
                /\ Made(attempts)
                /\ (n < Len(bs.elems) =>
                        attempts[n].metadata.connected /\ ~attempts[n].fails)
                /\ fn' = "get_cluster_topics_and_partitions"
                /\ calls' = attempts
                /\ retval' = get_cluster_topics_and_partitions(bs, name, attempts)
    /\ mpc' = "returned"
    /\ pc' = "returned"
    /\ UNCHANGED <<system, command, methods, i, log, args, out, history, exit_code,
                   subscriptions, sub_idx, vms, vm_idx, all_vms_info, files, mskVars>>

NextTopics == topics_call

SpecTopics == InitTopics /\ [][NextTopics]_vars

\* the attempt that went through, if one did
Succeeded == calls # <<>> /\ calls[Len(calls)].metadata.connected /\ ~calls[Len(calls)].fails

\* the sum of the 'partitions' counts of the entries of a 'topics' dict
RECURSIVE partitions_sum(_, _)
partitions_sum(entries, n) ==
    IF n = 0 THEN 0
    ELSE partitions_sum(entries, n - 1)
            + CHOOSE c \in 0..99 : int(c) = item(entries[n].v, <<"p", "a", "r", "t", "i", "t", "i", "o", "n", "s">>).val

\* C26: the cluster_info returned by get_cluster_topics_and_partitions has
\* total_topics equal to the number of entries of topics and
\* total_partitions equal to the sum of their partitions counts, and its
\* topics are those the successful attempt read: nothing of a failed attempt
\* remains, whatever the earlier attempts did before they failed.
C26_ClusterInfoOfOneConnection ==
    (fn = "get_cluster_topics_and_partitions" /\ mpc = "returned") =>
        LET topics == item(retval, <<"t", "o", "p", "i", "c", "s">>).val.entries
        IN /\ item(retval, <<"t", "o", "t", "a", "l", "_", "t", "o", "p", "i", "c", "s">>).val = int(Len(topics))
           /\ item(retval, <<"t", "o", "t", "a", "l", "_", "p", "a", "r", "t", "i", "t", "i", "o", "n", "s">>).val = int(partitions_sum(topics, Len(topics)))
           /\ retval = get_cluster_topics_and_partitions(
                            item(retval, <<"b", "o", "o", "t", "s", "t", "r", "a", "p", "_", "s", "e", "r", "v", "e", "r", "s">>).val,
                            item(retval, <<"c", "l", "u", "s", "t", "e", "r", "_", "n", "a", "m", "e">>).val,
                            IF Succeeded THEN <<calls[Len(calls)]>> ELSE <<>>)

\* (sanity) the same, when no attempt failed after it had connected
C26_HoldsWithoutPartialFailure ==
    (\A j \in 1..Len(calls) : ~calls[j].fails) => C26_ClusterInfoOfOneConnection

\* ---------------------------------------------------------------------
\* list_msk_cloudwatch_metrics.py: one call of get_cluster_metrics, over the
\* answers of CloudWatch with up to MaxDatapoints datapoints at times up to
\* MaxTimestamp.  calls holds the behaviour of CloudWatch during the call,
\* history the metrics requested, in order, and retval the value returned.

MaxDatapoints == 2
MaxTimestamp == 2

\* the lists of datapoints of an answer: statistics missing (0), 1 or 2
DatapointLists ==
    UNION {[1..n -> {Datapoint(t, v) : t \in 1..MaxTimestamp, v \in 0..2}] :
                n \in 1..MaxDatapoints}

\* the behaviours of CloudWatch in a single call: any answer for
\* BytesInPerSec and for TopicCount, datapoints for the other metrics
MetricsBehaviours ==
    {[client |-> c,
      answers |-> [j \in 1..Len(metrics_to_get) |->
                        IF j = 1 THEN a1 ELSE IF j = 5 THEN a5 ELSE "datapoints"],
      datapoints |-> dps] :
        c \in BOOLEAN, a1 \in MetricAnswers, a5 \in MetricAnswers,
        dps \in DatapointLists}

InitMetrics ==
    /\ system = "Linux"
    /\ fn = "none"
    /\ command = <<>>
    /\ methods = <<>>
    /\ i = 1
    /\ calls = <<>>
    /\ log = <<>>
    /\ pc = "idle"
    /\ retval = PyNone
    /\ history = <<>>
    /\ subscriptions = PyNone
    /\ sub_idx = 0
    /\ vms = PyNone
    /\ vm_idx = 0
    /\ all_vms_info = <<>>
    /\ script = "list_msk_cloudwatch_metrics.py"
    /\ mpc = "start"
    /\ args = NoArgs
    /\ out = <<>>
    /\ exit_code = 0
    /\ files = <<>>
    /\ clusters = <<>>
    /\ cluster_idx = 1
    /\ reread = <<>>

metrics_call ==
    /\ mpc = "start"
    /\ \E cluster \in 1..MaxClusters, cw \in MetricsBehaviours :
        LET r == get_cluster_metrics(item(Cluster(cluster), <<"C", "l", "u", "s", "t", "e", "r", "A", "r", "n">>).val,
                                     item(Cluster(cluster), <<"C", "l", "u", "s", "t", "e", "r", "N", "a", "m", "e">>).val, cw)
        IN /\ fn' = "get_cluster_metrics"
           /\ calls' = <<cw>>
           /\ history' = r.requested
           /\ retval' = r.val
    /\ mpc' = "returned"
    /\ pc' = "returned"
    /\ UNCHANGED <<system, command, methods, i, log, args, out, exit_code,
                   subscriptions, sub_idx, vms, vm_idx, all_vms_info, files, mskVars>>

NextMetrics == metrics_call

SpecMetrics == InitMetrics /\ [][NextMetrics]_vars

\* the number of the time that isoformat wrote
timestamp_of(entry) ==
    CHOOSE t \in 0..9 : isoformat(t) = item(entry, <<"t", "i", "m", "e", "s", "t", "a", "m", "p">>).val

\* the statistics of an entry of latest_value or of all_datapoints
statistics_of(entry) ==
    <<item(entry, <<"a", "v", "e", "r", "a", "g", "e">>).val, item(entry, <<"m", "a", "x", "i", "m", "u", "m">>).val,
      item(entry, <<"m", "i", "n", "i", "m", "u", "m">>).val>>

\* latest_value of a metric's entry is one of its all_datapoints, and none of
\* them is later
LatestOfAll(entry) ==
    LET latest == item(entry, <<"l", "a", "t", "e", "s", "t", "_", "v", "a", "l", "u", "e">>).val
        all == item(entry, <<"a", "l", "l", "_", "d", "a", "t", "a", "p", "o", "i", "n", "t", "s">>).val.elems
    IN /\ \E n \in 1..Len(all) :
            /\ timestamp_of(all[n]) = timestamp_of(latest)
            /\ statistics_of(all[n]) = statistics_of(latest)
       /\ \A n \in 1..Len(all) : timestamp_of(all[n]) <= timestamp_of(latest)

\* the j-th metric is requested in the call: the client was made and no
\* earlier request raised an exception that is no ClientError
Reached(j) ==
    /\ calls[1].client
    /\ \A n \in 1..(j - 1) : calls[1].answers[n] # "Exception"

MetricNames == {metrics_to_get[j].name : j \in 1..Len(metrics_to_get)}

\* C27: in a call of get_cluster_metrics a ClientError for one metric skips
\* only that metric, the metrics after it are still requested; in the record
\* returned the keys of 'metrics' are among the ten names requested, the
\* keys of 'summary' are among the four count metrics and among the keys of
\* 'metrics', and every metric's latest_value is that of a datapoint with
\* the greatest timestamp of its all_datapoints.
C27_MetricsRecord ==
    (fn = "get_cluster_metrics" /\ mpc = "returned") =>
        /\ \A j \in 1..Len(metrics_to_get) :
                Reached(j) => (Len(history) >= j /\ history[j] = metrics_to_get[j].name)
        /\ retval # PyNone =>
            LET metrics == item(retval, <<"m", "e", "t", "r", "i", "c", "s">>).val.entries
                summary == item(retval, <<"s", "u", "m", "m", "a", "r", "y">>).val.entries
                keys(entries) == {entries[n].k : n \in 1..Len(entries)}
            IN /\ keys(metrics) \subseteq MetricNames
               /\ \A j \in 1..Len(metrics_to_get) :
                    metrics_to_get[j].name \in keys(metrics)
                        <=> calls[1].answers[j] = "datapoints"
               /\ keys(summary) \subseteq SummaryMetrics
               /\ keys(summary) \subseteq keys(metrics)
               /\ \A n \in 1..Len(metrics) : LatestOfAll(metrics[n].v)

\* a record is returned after BytesInPerSec raised ClientError: TopicCount
\* is in it, and the latest of its two datapoints is the first one
C27_Witness ==
    /\ fn = "get_cluster_metrics" /\ mpc = "returned" /\ retval # PyNone
    /\ calls[1].answers[1] = "ClientError"
    /\ Len(history) = Len(metrics_to_get)
    /\ has(item(retval, <<"s", "u", "m", "m", "a", "r", "y">>).val, <<"T", "o", "p", "i", "c", "C", "o", "u", "n", "t">>).val
    /\ ~has(item(retval, <<"m", "e", "t", "r", "i", "c", "s">>).val, <<"B", "y", "t", "e", "s", "I", "n", "P", "e", "r", "S", "e", "c">>).val
    /\ Len(calls[1].datapoints) = 2
    /\ calls[1].datapoints[1].Timestamp > calls[1].datapoints[2].Timestamp
    /\ item(item(item(retval, <<"m", "e", "t", "r", "i", "c", "s">>).val, <<"T", "o", "p", "i", "c", "C", "o", "u", "n", "t">>).val, <<"l", "a", "t", "e", "s", "t", "_", "v", "a", "l", "u", "e">>).val
            = PyDict(<<[k |-> <<"a", "v", "e", "r", "a", "g", "e">>, v |-> PyNone],
                       [k |-> <<"m", "a", "x", "i", "m", "u", "m">>, v |-> PyNone],
                       [k |-> <<"m", "i", "n", "i", "m", "u", "m">>, v |-> PyNone],
                       [k |-> <<"t", "i", "m", "e", "s", "t", "a", "m", "p">>, v |-> isoformat(2)]>>)

\* ---------------------------------------------------------------------
\* The filters of the VM lister.

\* the calls of `az vm list` and `az vm show` that main has made
VmCalls ==
    {j \in 1..Len(history) :
        startswith(history[j].cmd, VmListPrefix) \/ startswith(history[j].cmd, VmShowPrefix)}

\* the `az vm show` commands for the VMs of the model that are in a resource
\* group
ShowCommandsIn(resource_group) ==
    {vm_show_command(<<"s", Digits[j]>>, resource_group, <<"v", Digits[n]>>) :
        j \in 1..MaxSubs, n \in {m \in 1..(MaxVMs + 1) :
            item(VM(m), <<"r", "e", "s", "o", "u", "r", "c", "e", "G", "r", "o", "u", "p">>).val = PyStr(resource_group)}}

\* the commands that name a subscription
CommandsOf(subscription_id) ==
    {vm_list_command(subscription_id)}
        \cup {vm_show_command(subscription_id, item(VM(n), <<"r", "e", "s", "o", "u", "r", "c", "e", "G", "r", "o", "u", "p">>).val.s,
                              <<"v", Digits[n]>>) : n \in 1..(MaxVMs + 1)}

\* C28: in a run with --resource-group every collected entry has the
\* filter's value as its resource_group and every `az vm show` call is for a
\* VM of that resource group; in a run with --subscription every VM call
\* names that subscription id and every entry is of the subscription with
\* that id, and when no subscription has the id the run ends without any VM
\* call.
C28_FiltersHold ==
    script = "list_azure_vms.py" =>
        /\ truthy(args.resource_group) =>
            /\ \A j \in 1..Len(all_vms_info) :
                    item(all_vms_info[j], <<"r", "e", "s", "o", "u", "r", "c", "e", "_", "g", "r", "o", "u", "p">>).val = args.resource_group
            /\ \A j \in VmCalls :
                    startswith(history[j].cmd, VmShowPrefix)
                        => history[j].cmd \in ShowCommandsIn(args.resource_group.s)
        /\ truthy(args.subscription) =>
            /\ \A j \in VmCalls : history[j].cmd \in CommandsOf(args.subscription.s)
            /\ \A j \in 1..Len(all_vms_info) :
                    \E n \in 1..MaxSubs :
                        /\ item(Subscription(n), <<"i", "d">>).val = args.subscription
                        /\ item(all_vms_info[j], <<"s", "u", "b", "s", "c", "r", "i", "p", "t", "i", "o", "n">>).val
                                = item(Subscription(n), <<"n", "a", "m", "e">>).val
            /\ (\A n \in 1..MaxSubs : item(Subscription(n), <<"i", "d">>).val # args.subscription)
                    => (VmCalls = {} /\ all_vms_info = <<>>
                        /\ mpc \notin {"for subscription", "get_vms_in_subscription",
                                       "for vm", "get_vm_details", "report"})

\* a detailed run with --resource-group gaz has ended: VM v1 of the first
\* subscription was listed and left out without a call, VM v2 of the second
\* was asked for and collected
C28_Witness ==
    /\ script = "list_azure_vms.py" /\ mpc = "exited"
    /\ args.resource_group = PyStr(<<"g", "a", "z">>) /\ args.detailed
    /\ Len(all_vms_info) = 1
    /\ item(all_vms_info[1], <<"n", "a", "m", "e">>).val = PyStr(<<"v", "2">>)
    /\ \E j \in VmCalls : history[j].cmd = vm_list_command(<<"s", "1">>)
    /\ Len(SelectSeq(out, LAMBDA m : m = Message("Found VM(s) in subscription", <<"1">>))) = 2
    /\ \E j \in VmCalls : history[j].cmd = vm_show_command(<<"s", "2">>, <<"g", "a", "z">>, <<"v", "2">>)

\* a run with --subscription s1 has ended: two subscriptions were found, and
\* the VM of s1 alone is collected
C28_SubscriptionCase ==
    /\ script = "list_azure_vms.py" /\ mpc = "exited"
    /\ args.subscription = PyStr(<<"s", "1">>)
    /\ PrintedFor("Found subscription(s)", <<"2">>)
    /\ Len(all_vms_info) = 1
    /\ VmCalls # {}

\* ---------------------------------------------------------------------
\* list_azure_vms.py: format_vm_info on one VM of a listing, as main calls
\* it.  vms holds the VM, retval what get_vm_details returned for it (None
\* without --detailed), all_vms_info the entry appended.

\* the values `az vm list` may give for 'id' and 'hardwareProfile' of a VM
\* (<<>>: the key is missing), and its 'powerState'
VmIds == {<<>>, <<PyNone>>, <<PyStr(<<"/", "s", "u", "b", "s", "c", "r", "i", "p", "t", "i", "o", "n", "s", "/", "s", "1", "/", "r", "e", "s", "o", "u", "r", "c", "e", "G", "r", "o", "u", "p", "s", "/", "r", "g">>)>>, <<PyStr(<<"v", "1">>)>>}
HardwareProfiles ==
    {<<>>, <<PyNone>>, <<PyDict(<<[k |-> <<"v", "m", "S", "i", "z", "e">>, v |-> PyStr(<<"B", "1", "s">>)]>>)>>}
PowerStates == {<<>>, <<PyStr(<<"r", "u", "n", "n", "i", "n", "g">>)>>}

\* the n-th VM with these values
VmWith(n, id, profile, power) ==
    PyDict(VM(n).entries
            \o [j \in 1..Len(id) |-> [k |-> <<"i", "d">>, v |-> id[j]]]
            \o [j \in 1..Len(profile) |-> [k |-> <<"h", "a", "r", "d", "w", "a", "r", "e", "P", "r", "o", "f", "i", "l", "e">>, v |-> profile[j]]]
            \o [j \in 1..Len(power) |-> [k |-> <<"p", "o", "w", "e", "r", "S", "t", "a", "t", "e">>, v |-> power[j]]])

VmShapes ==
    {VmWith(n, id, profile, power) :
        n \in 1..(MaxVMs + 1), id \in VmIds, profile \in HardwareProfiles,
        power \in PowerStates}

\* what get_vm_details may have returned
DetailsValues == {PyNone, VMDetails, DictA1, PyList(<<>>)}

InitFormat ==
    /\ system = "Linux"
    /\ fn = "none"
    /\ command = <<>>
    /\ methods = <<>>
    /\ i = 1
    /\ calls = <<>>
    /\ log = <<>>
    /\ pc = "idle"
    /\ retval \in DetailsValues
    /\ history = <<>>
    /\ subscriptions = SubscriptionList(1)
    /\ sub_idx = 1
    /\ vms \in {PyList(<<vm>>) : vm \in VmShapes}
    /\ vm_idx = 1
    /\ all_vms_info = <<>>
    /\ script = "list_azure_vms.py"
    /\ mpc = "start"
    /\ args = NoArgs
    /\ out = <<>>
    /\ exit_code = 0
    /\ files = <<>>
    /\ clusters = <<>>
    /\ cluster_idx = 1
    /\ reread = <<>>

\* vm_info = format_vm_info(vm, subscription_name, vm_details) and
\* all_vms_info.append(vm_info); an exception leaves the loops
format_call ==
    /\ mpc = "start"
    /\ LET subscription_name == get(subscriptions.elems[sub_idx], <<"n", "a", "m", "e">>, Unknown)
           vm_info == format_vm_info(vms.elems[vm_idx], subscription_name, retval)
       IN IF vm_info.raised
          THEN /\ mpc' = "raised"
               /\ UNCHANGED all_vms_info
          ELSE /\ mpc' = "returned"
               /\ all_vms_info' = Append(all_vms_info, vm_info.val)
    /\ fn' = "format_vm_info"
    /\ UNCHANGED <<system, command, methods, i, calls, log, pc, retval, args, out,
                   history, exit_code, subscriptions, sub_idx, vms, vm_idx, files,
                   mskVars>>

NextFormat == format_call

SpecFormat == InitFormat /\ [][NextFormat]_vars

\* the fields that format_vm_info gives a default
DefaultedFields ==
    {<<"n", "a", "m", "e">>, <<"r", "e", "s", "o", "u", "r", "c", "e", "_", "g", "r", "o", "u", "p">>, <<"l", "o", "c", "a", "t", "i", "o", "n">>, <<"s", "u", "b", "s", "c", "r", "i", "p", "t", "i", "o", "n">>, <<"s", "u", "b", "s", "c", "r", "i", "p", "t", "i", "o", "n", "_", "i", "d">>,
     <<"v", "m", "_", "s", "i", "z", "e">>, <<"p", "o", "w", "e", "r", "_", "s", "t", "a", "t", "e">>, <<"o", "s", "_", "t", "y", "p", "e">>, <<"o", "s", "_", "n", "a", "m", "e">>, <<"o", "s", "_", "v", "e", "r", "s", "i", "o", "n">>,
     <<"o", "s", "_", "d", "i", "s", "k", "_", "s", "i", "z", "e", "_", "g", "b">>, <<"p", "r", "i", "v", "a", "t", "e", "_", "i", "p">>, <<"p", "u", "b", "l", "i", "c", "_", "i", "p">>, <<"t", "a", "g", "s">>}
OsFields == {<<"o", "s", "_", "t", "y", "p", "e">>, <<"o", "s", "_", "n", "a", "m", "e">>, <<"o", "s", "_", "v", "e", "r", "s", "i", "o", "n">>, <<"o", "s", "_", "d", "i", "s", "k", "_", "s", "i", "z", "e", "_", "g", "b">>}

\* C29: format_vm_info returns, for every VM, a record that has every
\* defaulted field; when vm_details is absent its four OS fields are
\* 'Unknown'; the VM is in the result.
C29_EveryVmFormatted ==
    fn = "format_vm_info" =>
        /\ mpc = "returned"
        /\ Len(all_vms_info) = 1
        /\ \A f \in DefaultedFields : has(all_vms_info[1], f).val
        /\ retval = PyNone =>
                \A f \in OsFields : item(all_vms_info[1], f).val = Unknown

\* (sanity) the same, for the VMs whose 'id' is missing, null or a resource
\* id and whose 'hardwareProfile' is missing or an object
C29_HoldsForExpectedShapes ==
    LET vm == vms.elems[1]
        id == get(vm, <<"i", "d">>, PyNone)
    IN ((~truthy(id) \/ Len(split_on(id.s, "/")) >= 3)
            /\ get(vm, <<"h", "a", "r", "d", "w", "a", "r", "e", "P", "r", "o", "f", "i", "l", "e">>, PyDict(<<>>)).t = "dict")
        => C29_EveryVmFormatted

\* ---------------------------------------------------------------------
\* debug_azure_cli.py: check_azure_cli_installation.  calls holds the
\* candidates that were run with what their process did, i the candidate the
\* loop is at, files the az and az.cmd files that exist in the common
\* installation locations, out what was printed.

\* az and az.cmd files in the common locations of the largest file system
MaxInstalled == 1

DebugSystems == Systems \cup {"FreeBSD"}

az_commands == <<Az, AzCmd, <<"a", "z", "u", "r", "e", "-", "c", "l", "i">>>>

common_paths ==
    <<"C:\\Program Files (x86)\\Microsoft SDKs\\Azure\\CLI2\\wbin",
      "C:\\Program Files\\Microsoft SDKs\\Azure\\CLI2\\wbin",
      "C:\\Users\\<USERNAME>\\AppData\\Local\\Programs\\Azure CLI\\bin",
      "/usr/local/bin",
      "/opt/homebrew/bin",
      "/usr/bin",
      "/usr/local/bin",
      "/usr/bin",
      "/opt/azure-cli/bin">>

\* os.path.join(path, name)
AzFile(path, name) == [format |-> "file", filename |-> <<path, name>>]

\* the az and az.cmd files of the common locations, in the order of the
\* locations
AllAzFiles ==
    [n \in 1..(2 * Len(common_paths)) |->
        AzFile(common_paths[(n + 1) \div 2], IF n % 2 = 1 THEN "az" ELSE "az.cmd")]

\* the file systems of the model: up to MaxInstalled of these files exist
FileSystems ==
    UNION {{[j \in 1..n |-> AllAzFiles[s[j]]] :
                s \in {t \in [1..n -> 1..Len(AllAzFiles)] :
                            \A j \in 1..n, k \in 1..n :
                                j < k => (t[j] < t[k] /\ AllAzFiles[t[j]] # AllAzFiles[t[k]])}} :
            n \in 0..MaxInstalled}

\* os.path.exists(os.path.join(path, name))
exists(fs, path, name) == \E j \in 1..Len(fs) : fs[j] = AzFile(path, name)

\* what the process of `<cmd> --version` may do
VersionOutcomes ==
    {Completed(0, <<"a", "z", "u", "r", "e", "-", "c", "l", "i", " ", "2", ".", "0">>, <<>>)}
        \cup {Completed(c, <<>>, ErrText) : c \in 1..MaxExit}
        \cup {NoProcess("notfound"), NoProcess("hang"), NoProcess("oserror")}

InitDebug ==
    /\ system \in DebugSystems
    /\ fn = "check_azure_cli_installation"
    /\ command = <<>>
    /\ methods = <<>>
    /\ i = 1
    /\ calls = <<>>
    /\ log = <<>>
    /\ pc = "idle"
    /\ retval = PyNone
    /\ history = <<>>
    /\ subscriptions = PyNone
    /\ sub_idx = 0
    /\ vms = PyNone
    /\ vm_idx = 0
    /\ all_vms_info = <<>>
    /\ script = "debug_azure_cli.py"
    /\ mpc = "for cmd"
    /\ args = NoArgs
    /\ out = <<Message("Checking for Azure CLI executable:", <<>>)>>
    /\ exit_code = 0
    /\ files \in FileSystems
    /\ clusters = <<>>
    /\ cluster_idx = 1
    /\ reread = <<>>

\* one turn of `for cmd in az_commands`: subprocess.run([cmd, '--version'],
\* timeout=10); exit code 0 ends the loop, everything else is printed and
\* the next candidate is tried
debug_cmd ==
    /\ mpc = "for cmd"
    /\ i <= Len(az_commands)
    /\ \E o \in VersionOutcomes :
        LET cmd == az_commands[i]
        IN /\ calls' = Append(calls, [cmd |-> cmd, outcome |-> o])
           /\ CASE o.kind = "exit" /\ o.returncode = 0 ->
                    /\ out' = out \o <<Message("Found:", cmd)>>
                    /\ mpc' = "for path"
                [] o.kind = "exit" /\ o.returncode # 0 ->
                    /\ out' = out \o <<Message("returned error code:", cmd)>>
                    /\ mpc' = IF i = Len(az_commands) THEN "for path" ELSE mpc
                [] o.kind = "notfound" ->
                    /\ out' = out \o <<Message("not found in PATH", cmd)>>
                    /\ mpc' = IF i = Len(az_commands) THEN "for path" ELSE mpc
                [] o.kind = "hang" ->
                    /\ out' = out \o <<Message("command timed out", cmd)>>
                    /\ mpc' = IF i = Len(az_commands) THEN "for path" ELSE mpc
                [] o.kind = "oserror" ->
                    /\ out' = out \o <<Message("Error running", cmd)>>
                    /\ mpc' = IF i = Len(az_commands) THEN "for path" ELSE mpc
    /\ i' = i + 1
    /\ UNCHANGED <<system, fn, command, methods, log, pc, retval, args, history,
                   exit_code, subscriptions, sub_idx, vms, vm_idx, all_vms_info,
                   files, mskVars>>

\* az_found in the loop: a candidate exited with code 0
az_found_in_path == \E k \in 1..Len(calls) : ExitZero(calls[k])

\* `for path in common_paths`: the line printed for a location
path_line(fs, path) ==
    IF exists(fs, path, "az") THEN Message("Found az at:", <<path, "az">>)
    ELSE IF exists(fs, path, "az.cmd") THEN Message("Found az.cmd at:", <<path, "az.cmd">>)
    ELSE Message("Not found:", <<path>>)

\* (mutant) the files in the common locations do not count
az_found_only_in_path(found, fs) == found

\* az_found after `for path in common_paths`
az_found(found, fs) ==
    found \/ \E j \in 1..Len(common_paths) :
                exists(fs, common_paths[j], "az") \/ exists(fs, common_paths[j], "az.cmd")

\* the installation instructions for the host
instructions(sys) ==
    <<Message("Azure CLI not found. Installation instructions:", <<>>)>>
        \o (CASE lower(sys) = "windows" -> <<Message("Windows Installation:", <<>>)>>
              [] lower(sys) = "darwin" -> <<Message("macOS Installation:", <<>>)>>
              [] lower(sys) = "linux" -> <<Message("Linux Installation:", <<>>)>>
              [] OTHER -> <<>>)

\* from `for path in common_paths` to the end of the function
debug_paths ==
    /\ mpc = "for path"
    /\ out' = out
            \o <<Message("Checking common Azure CLI installation locations:", <<>>)>>
            \o [j \in 1..Len(common_paths) |-> path_line(files, common_paths[j])]
            \o (IF az_found(az_found_in_path, files)
                THEN <<Message("Azure CLI is installed and accessible!", <<>>)>>
                ELSE instructions(system))
    /\ mpc' = "exited"
    /\ UNCHANGED <<system, callVars, args, history, exit_code, subscriptions,
                   sub_idx, vms, vm_idx, all_vms_info, files, mskVars>>

NextDebug ==
    \/ debug_cmd
    \/ debug_paths

SpecDebug == InitDebug /\ [][NextDebug]_vars

\* C30: the availability check of the debug script runs az, az.cmd and
\* azure-cli in this order and stops at the first that exits with code 0; a
\* candidate that is not found, times out or fails otherwise is followed by
\* the next; at the end the installation instructions are printed exactly
\* when no candidate exited with code 0 and no az or az.cmd file exists in a
\* common location, and the 'installed and accessible' message otherwise.
C30_AvailabilityCheck ==
    script = "debug_azure_cli.py" =>
        /\ Len(calls) <= Len(az_commands)
        /\ \A k \in 1..Len(calls) :
                /\ calls[k].cmd = az_commands[k]
                /\ k < Len(calls) => ~ExitZero(calls[k])
        /\ mpc = "for cmd" => (i = Len(calls) + 1 /\ ~az_found_in_path)
        /\ mpc # "for cmd" => (az_found_in_path \/ Len(calls) = Len(az_commands))
        /\ mpc = "exited" =>
                LET missing == ~az_found_in_path /\ files = <<>>
                IN /\ Printed("Azure CLI not found. Installation instructions:") <=> missing
                   /\ Printed("Azure CLI is installed and accessible!") <=> ~missing
                   /\ (missing /\ system # "FreeBSD") =>
                        out[Len(out)].msg \in {"Windows Installation:",
                                "macOS Installation:", "Linux Installation:"}

\* the check has ended with the 'installed' message: az was not found, az.cmd
\* timed out, azure-cli exited with an error, and az.cmd exists in a common
\* location
C30_Witness ==
    /\ script = "debug_azure_cli.py" /\ mpc = "exited"
    /\ Len(calls) = 3
    /\ calls[1].outcome.kind = "notfound"
    /\ calls[2].outcome.kind = "hang"
    /\ ExitNonZero(calls[3])
    /\ Len(files) = 1 /\ files[1].filename[2] = "az.cmd"
    /\ Printed("Azure CLI is installed and accessible!")

\* the check has ended with the instructions for Linux
C30_InstructionsCase ==
    /\ script = "debug_azure_cli.py" /\ mpc = "exited"
    /\ system = "Linux" /\ files = <<>> /\ Len(calls) = 3
    /\ Printed("Linux Installation:")

====
